---- MODULE Spec2Model ----
(***************************************************************************)
(* Model of the uptime-monitoring backend (src/server.py): the document    *)
(* store (monitors, uptime_logs, alert_settings), the background           *)
(* monitor_check_cycle task, and the API handlers that write the store.    *)
(* Every handler is an asyncio coroutine: the code between two awaits      *)
(* runs without interruption, so there is one action per awaited store     *)
(* call or probe.  Time is counted in scheduler ticks (one tick is the     *)
(* 30 s of asyncio.sleep(30)); check_interval and the 24 h window are      *)
(* expressed in the same unit.                                             *)
(***************************************************************************)
EXTENDS Integers, Sequences, FiniteSets, TLC

\* ---- bounds of the model ----
MaxMonitors == 2      \* monitors ever created (fresh uuid4 each)
MaxChecks == 2        \* probes ever started (scheduler and manual together)
MaxTime == 2          \* last clock value
MaxRequests == 3      \* API requests ever received
MaxManual == 1        \* concurrent POST /api/monitors/{id}/check requests
MaxAlertReqs == 2     \* concurrent POST /api/alerts requests
MaxTasks == 2         \* monitor_check_cycle tasks ever created
MaxFields == 2        \* kind-specific fields a request body gives

\* ---- program constants, in ticks ----
SleepTicks == 1         \* asyncio.sleep(30)
TwentyFourHours == 1    \* timedelta(hours=24), scaled to the clock's range
None == 0 - 1           \* an absent Optional value

UP == "up"
DOWN == "down"
UNKNOWN == "unknown"
WARNING == "warning"
MonitorStatus == {UP, DOWN, UNKNOWN, WARNING}

\* what a probe primitive can return as status (never UNKNOWN)
ProbeStatus == {UP, DOWN, WARNING}
\* check_interval values offered to create_monitor
Intervals == {1, 2}
\* (alert_on_down, alert_on_up) bodies offered to POST /api/alerts
AlertFlags == {<<TRUE, TRUE>>, <<TRUE, FALSE>>, <<FALSE, TRUE>>}

MonitorIds == 1..MaxMonitors
ManualSlots == 1..MaxManual
AlertSlots == 1..MaxAlertReqs
TaskIds == 1..MaxTasks

VARIABLES
  now,               \* datetime.utcnow()
  monitors,          \* db.monitors: id -> document
  nextId,            \* next fresh monitor id
  uptime_logs,       \* db.uptime_logs, in insertion order
  alert_settings,    \* db.alert_settings, in insertion order
  emails,            \* messages handed to SMTP, in order
  monitoring_active, \* global flag
  monitoring_task,   \* global: the task start_monitoring_service created
  sched,             \* monitor_check_cycle tasks: position and locals
  manual,            \* manual_check_monitor requests: position and locals
  alertReq,          \* create_alert_settings requests: position and locals
  delReq,            \* the delete_monitor request: position and locals
  probes,            \* history: one record per check started
  requests,          \* API requests received so far
  app,               \* startup_event / shutdown_event: position
  client,            \* the store client: "open" or "closed"
  unparsable,        \* ids of stored monitor documents Monitor(**doc) rejects
  post,              \* a POST /api/monitors request: body, position, response
  call               \* a call of a probe primitive: arguments and result

\* the globals and requests of the engine's start and stop, and the
\* condition of the store
lifecycle == <<monitoring_task, app, client, unparsable, post, call>>

vars == <<now, monitors, nextId, uptime_logs, alert_settings, emails,
          monitoring_active, sched, manual, alertReq, delReq, probes,
          requests, lifecycle>>

\* ---------------------------------------------------------------------
\* helpers
\* ---------------------------------------------------------------------
RECURSIVE SortedIds(_)
SortedIds(S) ==
  IF S = {} THEN <<>>
  ELSE LET m == CHOOSE x \in S : \A y \in S : x <= y
       IN <<m>> \o SortedIds(S \ {m})

RECURSIVE Gcd(_, _)
Gcd(a, b) == IF b = 0 THEN a ELSE Gcd(b, a % b)

\* a non-negative fraction num/den in lowest terms, as <<num, den>>
Fraction(num, den) ==
  LET g == Gcd(num, den) IN <<num \div g, den \div g>>

\* a Monitor that is born with a status
NewMonitorChecked(check_interval) ==
  [status |-> UP, last_checked |-> None,
   uptime_percentage |-> <<0, 1>>, check_interval |-> check_interval]

\* Monitor(...) as create_monitor builds it
NewMonitor(check_interval) ==
  [status |-> UNKNOWN, last_checked |-> None,
   uptime_percentage |-> <<0, 1>>, check_interval |-> check_interval]

\* db.monitors.find().to_list(1000): the documents, oldest first
find_monitors ==
  LET ids == SortedIds(DOMAIN monitors)
  IN [i \in 1..Len(ids) |->
        [id |-> ids[i], status |-> monitors[ids[i]].status,
         last_checked |-> monitors[ids[i]].last_checked,
         check_interval |-> monitors[ids[i]].check_interval,
         parsable |-> ids[i] \notin unparsable]]

\* an update_one whose last_checked is utcnow() at the write
update_check_at_write(ms, id, last_checked, status) ==
  IF id \in DOMAIN ms
  THEN [ms EXCEPT ![id].last_checked = now, ![id].status = status]
  ELSE ms

\* an update_one whose $set holds last_checked only
update_check_last_checked(ms, id, last_checked, status) ==
  IF id \in DOMAIN ms
  THEN [ms EXCEPT ![id].last_checked = last_checked]
  ELSE ms

\* db.monitors.update_one({"id": id}, {"$set": {last_checked, status}})
update_check(ms, id, last_checked, status) ==
  IF id \in DOMAIN ms
  THEN [ms EXCEPT ![id].last_checked = last_checked, ![id].status = status]
  ELSE ms

\* error_msg = None
NoError == [text |-> "", code |-> 0]
\* the message of a probe that did not find its target up
Failure == [text |-> "message", code |-> 0]
\* what a probe of any kind can return: up without a message, down or
\* warning with one
ProbeResult(status) ==
  [status |-> status,
   error_message |-> IF status = UP THEN NoError ELSE Failure]

\* a check_url for which every 2xx answer is a success
check_url_2xx(response) ==
  IF response.kind = "response" /\ response.code \in 200..299
  THEN [status |-> UP, error_message |-> NoError]
  ELSE [status |-> DOWN,
        error_message |-> [text |-> "HTTP", code |-> response.code]]

\* check_url: the outcome for what session.get gave
check_url(response) ==
  CASE response.kind = "response" ->
         IF response.code = 200
         THEN [status |-> UP, error_message |-> NoError]
         ELSE [status |-> DOWN,
               error_message |-> [text |-> "HTTP", code |-> response.code]]
    [] response.kind = "timeout" ->
         [status |-> DOWN, error_message |-> [text |-> "Timeout", code |-> 0]]
    [] OTHER ->
         [status |-> DOWN, error_message |-> [text |-> "str(e)", code |-> 0]]

\* the log_dict / UptimeLog that a check inserts
log_dict(check, monitor_id, status, error_msg, timestamp) ==
  [id |-> check, monitor_id |-> monitor_id, status |-> status,
   error_message |-> error_msg, timestamp |-> timestamp]

\* insert_one that drops the record of a failed probe
insert_log_only_success(logs, log) ==
  IF log.status = DOWN THEN logs ELSE Append(logs, log)

\* db.uptime_logs.insert_one(log)
insert_log(logs, log) == Append(logs, log)

\* a due test that wants more than the interval to have passed
is_due_late(doc, t) ==
  doc.last_checked = None \/ t - doc.last_checked > doc.check_interval

\* the due test of the scan
is_due(doc, t) ==
  doc.last_checked = None \/ t - doc.last_checked >= doc.check_interval

\* the alert test without its UNKNOWN exclusion
status_changed_any(previous_status, status) == previous_status # status

\* the test that guards the alert block
status_changed(previous_status, status) ==
  previous_status # status /\ previous_status # UNKNOWN

should_alert(status, alert) ==
  \/ status = DOWN /\ alert.alert_on_down
  \/ status = UP /\ alert.alert_on_up
  \/ status = WARNING /\ alert.alert_on_down

\* the template send_alert_email renders for a status
send_alert_email(status) == IF status = DOWN THEN "DOWN" ELSE "RECOVERY"

\* logs of one monitor with timestamp >= t - 24h
recent_logs(logs, monitor_id, t) ==
  SelectSeq(logs, LAMBDA l : l.monitor_id = monitor_id
                             /\ l.timestamp >= t - TwentyFourHours)

up_count(logs) == Len(SelectSeq(logs, LAMBDA l : l.status = UP))

\* (up_count / total_count) * 100
uptime_percentage(logs) == Fraction(up_count(logs) * 100, Len(logs))

\* a check record of the history
\* a probe of unspecified kind: nothing is known of what the target sent
NoResponse == [kind |-> "any", code |-> 0]

NewProbe(monitor_id, by, interval, previous_status) ==
  [monitor_id |-> monitor_id, by |-> by, start |-> now,
   interval |-> interval, previous_status |-> previous_status,
   status |-> UNKNOWN, updated |-> FALSE, logged |-> 0,
   log_monitor |-> None,
   log_status |-> UNKNOWN, consulted |-> FALSE, read |-> 0,
   all_on |-> TRUE, send_failed |-> FALSE, done |-> FALSE,
   response |-> NoResponse, error_message |-> NoError]

\* the locals of a task that has passed the loop test and awaits its find
IdleSched == [pc |-> "find", snapshot |-> <<>>, idx |-> 0, check |-> 0,
              previous_status |-> UNKNOWN, status |-> UNKNOWN,
              error_msg |-> NoError,
              last_checked |-> None, timestamp |-> None,
              uptime |-> <<0, 1>>, scan_from |-> None, sleep_from |-> None,
              at |-> "none"]
\* a task asyncio.create_task has made and that has not run yet
Created == [IdleSched EXCEPT !.pc = "created"]
\* a task id that no task has been created for
NoTask == [IdleSched EXCEPT !.pc = "none"]
\* a task whose coroutine has returned or was cancelled
Exited == [IdleSched EXCEPT !.pc = "exited"]
IdleManual == [pc |-> "idle", monitor_id |-> 0, check |-> 0,
               status |-> UNKNOWN, error_msg |-> NoError,
               last_checked |-> None,
               timestamp |-> None]
\* no request in the slot; monitor_id and code are those of the last
\* response the slot gave
IdleAlertReq == [pc |-> "idle", monitor_id |-> 0, code |-> 0]
IdleDelReq == [pc |-> "idle", monitor_id |-> 0]
\* the application between startup_event and shutdown_event
Serving == [pc |-> "serving", task |-> None]

\* MonitorType
MonitorType == {"http", "https", "ssl", "dns", "port", "ping", "keyword",
                "api"}
\* the fields of MonitorCreate that create_monitor looks at
Fields == {"url", "ssl_domain", "dns_hostname", "port_host", "port_number",
           "ping_host", "keyword_url", "keyword_text", "api_url"}
\* Optional[HttpUrl] fields: the request model admits None or a URL
UrlFields == {"url", "keyword_url", "api_url"}
\* what a field of the parsed body holds: None (omitted or null), an
\* empty value ('' for a str, 0 for an int), or a non-empty value
FieldValues == {"absent", "empty", "set"}
Bodies ==
  {b \in [Fields -> FieldValues] :
      /\ \A f \in UrlFields : b[f] # "empty"
      /\ Cardinality({f \in Fields : b[f] # "absent"}) <= MaxFields}
HttpsBody == [f \in Fields |-> IF f = "url" THEN "set" ELSE "absent"]
\* no request drawn
\* no primitive has been called
NoCall == [pc |-> "none"]

NoPost == [pc |-> "none", monitor_type |-> "https", body |-> HttpsBody,
           code |-> 0]
\* the requests a client can send for a monitor
Posts == [pc : {"pending"}, monitor_type : MonitorType, body : Bodies,
          code : {0}]

\* task t continues with these locals
Resume(t, locals) == [sched EXCEPT ![t] = locals]

\* ---------------------------------------------------------------------
\* initial state: the application has started (startup_event has run
\* start_monitoring_service) against an empty store
\* ---------------------------------------------------------------------
Started ==
  /\ now = 0
  /\ monitors = << >>
  /\ nextId = 1
  /\ uptime_logs = << >>
  /\ alert_settings = << >>
  /\ emails = << >>
  /\ monitoring_active = TRUE
  /\ monitoring_task = 1
  /\ sched = [t \in TaskIds |->
                IF t = 1 THEN [IdleSched EXCEPT !.scan_from = 0] ELSE NoTask]
  /\ manual = [s \in ManualSlots |-> IdleManual]
  /\ alertReq = [s \in AlertSlots |-> IdleAlertReq]
  /\ delReq = IdleDelReq
  /\ probes = << >>
  /\ requests = 0
  /\ app = Serving
  /\ client = "open"
  /\ unparsable = {}
  /\ post = NoPost

\* the application serves, the engine runs, no primitive has been called
Init == Started /\ call = NoCall

\* ---------------------------------------------------------------------
\* the clock
\* ---------------------------------------------------------------------
Tick ==
  /\ now < MaxTime
  /\ now' = now + 1
  /\ UNCHANGED <<monitors, nextId, uptime_logs, alert_settings, emails,
                 monitoring_active, sched, manual, alertReq, delReq, probes,
                 requests, lifecycle>>

\* ---------------------------------------------------------------------
\* POST /api/monitors
\* ---------------------------------------------------------------------
\* a start that creates a task whatever the flag says
start_monitoring_service_always ==
  \E t \in TaskIds :
     /\ sched[t].pc = "none"
     /\ \A u \in 1..(t - 1) : sched[u].pc # "none"
     /\ monitoring_active' = TRUE
     /\ monitoring_task' = t
     /\ sched' = Resume(t, Created)

\* start_monitoring_service(): a task is created only when the flag is
\* not set
start_monitoring_service ==
  IF monitoring_active
  THEN UNCHANGED <<monitoring_active, monitoring_task, sched>>
  ELSE \E t \in TaskIds :
          /\ sched[t].pc = "none"
          /\ \A u \in 1..(t - 1) : sched[u].pc # "none"
          /\ monitoring_active' = TRUE
          /\ monitoring_task' = t
          /\ sched' = Resume(t, Created)

\* `not monitor_dict.get(field)`: None, '' and 0 are all false
Falsy(value) == value \in {"absent", "empty"}

\* a handler without the validation block
required_missing_never(monitor_type, body) == FALSE

\* the test of the branch of monitor_type that raises HTTPException(400)
required_missing(monitor_type, body) ==
  CASE monitor_type \in {"http", "https"} -> Falsy(body.url)
    [] monitor_type = "ssl" -> Falsy(body.ssl_domain)
    [] monitor_type = "dns" -> Falsy(body.dns_hostname)
    [] monitor_type = "port" ->
          Falsy(body.port_host) \/ Falsy(body.port_number)
    [] monitor_type = "ping" -> Falsy(body.ping_host)
    [] monitor_type = "keyword" ->
          Falsy(body.keyword_url) \/ Falsy(body.keyword_text)
    [] monitor_type = "api" -> Falsy(body.api_url)
    [] OTHER -> FALSE

\* the status code of the response
create_monitor_status(monitor_type, body) ==
  IF required_missing(monitor_type, body) THEN 400 ELSE 200

\* the handler: validation; then insert_one and, in the resumption of
\* that await, start_monitoring_service (which has no await of its own)
create_monitor_request(check_interval, monitor_type, body) ==
  /\ app.pc \in {"serving", "await"}
  /\ client = "open"
  /\ requests < MaxRequests
  /\ requests' = requests + 1
  /\ IF required_missing(monitor_type, body)
     THEN UNCHANGED <<monitors, nextId, monitoring_active, monitoring_task,
                      sched>>
     ELSE /\ nextId <= MaxMonitors
          /\ monitors' = (nextId :> NewMonitor(check_interval)) @@ monitors
          /\ nextId' = nextId + 1
          /\ start_monitoring_service
  /\ UNCHANGED <<now, uptime_logs, alert_settings, emails, manual, alertReq,
                 delReq, probes, app, client, unparsable, call>>

\* a request for an https monitor with its url
create_monitor(check_interval) ==
  /\ create_monitor_request(check_interval, "https", HttpsBody)
  /\ UNCHANGED post

\* ---------------------------------------------------------------------
\* monitor_check_cycle: the background task (t is the task)
\* ---------------------------------------------------------------------
RECURSIVE next_due(_, _, _)
\* the first document at or after position i that the scan does not
\* pass over: Monitor(**monitor_doc) rejects it, or it is due
next_due(snapshot, i, t) ==
  IF i > Len(snapshot) THEN i
  ELSE IF ~snapshot[i].parsable THEN i
  ELSE IF is_due(snapshot[i], t) THEN i
  ELSE next_due(snapshot, i + 1, t)

\* the locals of the task when it moves on to the following document
NextDocument(t) ==
  [IdleSched EXCEPT !.pc = "next", !.snapshot = sched[t].snapshot,
                    !.idx = sched[t].idx + 1,
                    !.scan_from = sched[t].scan_from]

\* monitors = await db.monitors.find().to_list(1000)
monitor_check_cycle_find(t) ==
  /\ sched[t].pc = "find"
  /\ sched' = Resume(t, [sched[t] EXCEPT !.pc = "next",
                           !.snapshot = find_monitors, !.idx = 1])
  /\ UNCHANGED <<now, monitors, nextId, uptime_logs, alert_settings, emails,
                 monitoring_active, manual, alertReq, delReq, probes,
                 requests, lifecycle>>

\* for monitor_doc in monitors: a due document starts its probe
monitor_check_cycle_start(t) ==
  /\ sched[t].pc = "next"
  /\ LET i == next_due(sched[t].snapshot, sched[t].idx, now)
     IN /\ i <= Len(sched[t].snapshot)
        /\ sched[t].snapshot[i].parsable
        /\ Len(probes) < MaxChecks
        /\ probes' = Append(probes,
                       NewProbe(sched[t].snapshot[i].id, "scheduler",
                                sched[t].snapshot[i].check_interval,
                                sched[t].snapshot[i].status))
        /\ sched' = Resume(t, [sched[t] EXCEPT !.pc = "probe", !.idx = i,
                       !.check = Len(probes) + 1,
                       !.previous_status = sched[t].snapshot[i].status,
                       !.last_checked = now])
  /\ UNCHANGED <<now, monitors, nextId, uptime_logs, alert_settings, emails,
                 monitoring_active, manual, alertReq, delReq, requests,
                 lifecycle>>

\* the locals of the task in `await asyncio.sleep(30)`: the sleep is
\* measured from the moment the scan is over
Asleep(t) ==
  [IdleSched EXCEPT !.pc = "sleep", !.scan_from = sched[t].scan_from,
                    !.sleep_from = now]

\* no document left that is due: await asyncio.sleep(30)
monitor_check_cycle_sleep(t) ==
  /\ sched[t].pc = "next"
  /\ next_due(sched[t].snapshot, sched[t].idx, now) > Len(sched[t].snapshot)
  /\ sched' = Resume(t, Asleep(t))
  /\ UNCHANGED <<now, monitors, nextId, uptime_logs, alert_settings, emails,
                 monitoring_active, manual, alertReq, delReq, probes,
                 requests, lifecycle>>

\* the task runs for the first time, or its sleep is over: the loop test
\* `while monitoring_active`; the find is issued or the coroutine returns
monitor_check_cycle_wake(t) ==
  /\ \/ sched[t].pc = "created"
     \/ /\ sched[t].pc = "sleep"
        /\ now >= sched[t].sleep_from + SleepTicks
  /\ sched' = Resume(t, IF monitoring_active
                        THEN [IdleSched EXCEPT !.scan_from = now]
                        ELSE Exited)
  /\ UNCHANGED <<now, monitors, nextId, uptime_logs, alert_settings, emails,
                 monitoring_active, manual, alertReq, delReq, probes,
                 requests, lifecycle>>

\* the awaited probe is over: status and error_msg are set, from what
\* the primitive returned or by the handler of the inner try
monitor_check_cycle_probed(t, response, result) ==
  /\ sched[t].pc = "probe"
  /\ sched' = Resume(t, [sched[t] EXCEPT !.pc = "update",
                                         !.status = result.status,
                                         !.error_msg = result.error_message])
  /\ probes' = [probes EXCEPT ![sched[t].check].status = result.status,
                              ![sched[t].check].response = response,
                              ![sched[t].check].error_message =
                                 result.error_message]
  /\ UNCHANGED <<now, monitors, nextId, uptime_logs, alert_settings, emails,
                 monitoring_active, manual, alertReq, delReq, requests,
                 lifecycle>>

\* the probe primitive returns (an exception in it gives DOWN)
monitor_check_cycle_probe(t, status) ==
  monitor_check_cycle_probed(t, NoResponse, ProbeResult(status))

\* await db.monitors.update_one(...); then the UptimeLog is built (its
\* timestamp defaults to utcnow())
monitor_check_cycle_update(t) ==
  /\ sched[t].pc = "update"
  /\ monitors' = update_check(monitors, sched[t].snapshot[sched[t].idx].id,
                              sched[t].last_checked, sched[t].status)
  /\ sched' = Resume(t, [sched[t] EXCEPT !.pc = "insert",
                                         !.timestamp = now])
  /\ probes' = [probes EXCEPT ![sched[t].check].updated = TRUE]
  /\ UNCHANGED <<now, nextId, uptime_logs, alert_settings, emails,
                 monitoring_active, manual, alertReq, delReq, requests,
                 lifecycle>>

\* await db.uptime_logs.insert_one(uptime_log.dict())
monitor_check_cycle_insert(t) ==
  /\ sched[t].pc = "insert"
  /\ LET c == sched[t].check
         log == log_dict(c, sched[t].snapshot[sched[t].idx].id,
                         sched[t].status, sched[t].error_msg,
                         sched[t].timestamp)
     IN /\ uptime_logs' = insert_log(uptime_logs, log)
        /\ probes' = [probes EXCEPT
             ![c].logged = @ + Len(uptime_logs') - Len(uptime_logs),
             ![c].log_monitor = log.monitor_id,
             ![c].log_status = log.status]
  /\ sched' = Resume(t, [sched[t] EXCEPT !.pc = "uptime"])
  /\ UNCHANGED <<now, monitors, nextId, alert_settings, emails,
                 monitoring_active, manual, alertReq, delReq, requests,
                 lifecycle>>

\* where the task goes once update_uptime_percentage has returned
AfterUptime(t) ==
  IF status_changed(sched[t].previous_status, sched[t].status)
  THEN [sched[t] EXCEPT !.pc = "alert"]
  ELSE NextDocument(t)

\* update_uptime_percentage: logs = await db.uptime_logs.find(...)
update_uptime_percentage_find(t) ==
  /\ sched[t].pc = "uptime"
  /\ LET logs == recent_logs(uptime_logs,
                             sched[t].snapshot[sched[t].idx].id, now)
     IN IF logs = << >>
        THEN /\ sched' = Resume(t, AfterUptime(t))
             /\ probes' = [probes EXCEPT ![sched[t].check].done =
                             ~status_changed(sched[t].previous_status,
                                             sched[t].status)]
        ELSE /\ sched' = Resume(t, [sched[t] EXCEPT !.pc = "uptime_update",
                                       !.uptime = uptime_percentage(logs)])
             /\ UNCHANGED probes
  /\ UNCHANGED <<now, monitors, nextId, uptime_logs, alert_settings, emails,
                 monitoring_active, manual, alertReq, delReq, requests,
                 lifecycle>>

\* update_uptime_percentage: await db.monitors.update_one(...)
update_uptime_percentage_update(t) ==
  /\ sched[t].pc = "uptime_update"
  /\ LET id == sched[t].snapshot[sched[t].idx].id
     IN monitors' = IF id \in DOMAIN monitors
                    THEN [monitors EXCEPT
                            ![id].uptime_percentage = sched[t].uptime]
                    ELSE monitors
  /\ sched' = Resume(t, AfterUptime(t))
  /\ probes' = [probes EXCEPT ![sched[t].check].done =
                  ~status_changed(sched[t].previous_status, sched[t].status)]
  /\ UNCHANGED <<now, nextId, uptime_logs, alert_settings, emails,
                 monitoring_active, manual, alertReq, delReq, requests,
                 lifecycle>>

\* the messages one alert block sends for the alert documents it read
RECURSIVE alert_emails(_, _, _, _, _)
alert_emails(alerts, check, monitor_id, previous_status, status) ==
  IF alerts = << >> THEN << >>
  ELSE LET alert == Head(alerts)
           rest == alert_emails(Tail(alerts), check, monitor_id,
                                previous_status, status)
       IN IF should_alert(status, alert) /\ alert.email_enabled
          THEN <<[check |-> check, monitor_id |-> monitor_id,
                  kind |-> send_alert_email(status), status |-> status,
                  previous_status |-> previous_status]>> \o rest
          ELSE rest

\* alert_settings = await db.alert_settings.find(...); one
\* send_alert_email per qualifying document (it has no await inside)
monitor_check_cycle_alert(t) ==
  /\ sched[t].pc = "alert"
  /\ LET id == sched[t].snapshot[sched[t].idx].id
         c == sched[t].check
         alerts == SelectSeq(alert_settings, LAMBDA a : a.monitor_id = id)
     IN /\ emails' = emails \o alert_emails(alerts, c, id,
                                 sched[t].previous_status, sched[t].status)
        /\ probes' = [probes EXCEPT
             ![c].consulted = TRUE,
             ![c].read = Len(alerts),
             ![c].all_on =
                \A k \in 1..Len(alerts) :
                   /\ alerts[k].email_enabled
                   /\ alerts[k].alert_on_down
                   /\ alerts[k].alert_on_up,
             ![c].done = TRUE]
  /\ sched' = Resume(t, NextDocument(t))
  /\ UNCHANGED <<now, monitors, nextId, uptime_logs, alert_settings,
                 monitoring_active, manual, alertReq, delReq, requests,
                 lifecycle>>

\* ---------------------------------------------------------------------
\* POST /api/monitors/{id}/check
\* ---------------------------------------------------------------------
\* monitor = await db.monitors.find_one(...); 404 if there is none;
\* update_data = {"last_checked": utcnow()}; the probe is started
manual_check_monitor_find(s, monitor_id) ==
  /\ manual[s].pc = "idle"
  /\ \A r \in 1..(s - 1) : manual[r].pc # "idle"
  /\ monitor_id \in DOMAIN monitors
  /\ Len(probes) < MaxChecks
  /\ probes' = Append(probes,
                 NewProbe(monitor_id, "manual",
                          monitors[monitor_id].check_interval,
                          monitors[monitor_id].status))
  /\ manual' = [manual EXCEPT ![s] =
                  [IdleManual EXCEPT !.pc = "probe",
                     !.monitor_id = monitor_id, !.check = Len(probes) + 1,
                     !.last_checked = now]]
  /\ requests < MaxRequests
  /\ requests' = requests + 1
  /\ UNCHANGED <<now, monitors, nextId, uptime_logs, alert_settings, emails,
                 monitoring_active, sched, alertReq, delReq, lifecycle>>

\* the awaited probe is over: status and error_msg are set
manual_check_monitor_probed(s, response, result) ==
  /\ manual[s].pc = "probe"
  /\ manual' = [manual EXCEPT ![s].pc = "update",
                              ![s].status = result.status,
                              ![s].error_msg = result.error_message]
  /\ probes' = [probes EXCEPT ![manual[s].check].status = result.status,
                              ![manual[s].check].response = response,
                              ![manual[s].check].error_message =
                                 result.error_message]
  /\ UNCHANGED <<now, monitors, nextId, uptime_logs, alert_settings, emails,
                 monitoring_active, sched, alertReq, delReq, requests,
                 lifecycle>>

\* the probe primitive returns (an exception in it gives DOWN)
manual_check_monitor_probe(s, status) ==
  manual_check_monitor_probed(s, NoResponse, ProbeResult(status))

\* await db.monitors.update_one(...); then the UptimeLog is built
manual_check_monitor_update(s) ==
  /\ manual[s].pc = "update"
  /\ monitors' = update_check(monitors, manual[s].monitor_id,
                              manual[s].last_checked, manual[s].status)
  /\ manual' = [manual EXCEPT ![s].pc = "insert", ![s].timestamp = now]
  /\ probes' = [probes EXCEPT ![manual[s].check].updated = TRUE]
  /\ UNCHANGED <<now, nextId, uptime_logs, alert_settings, emails,
                 monitoring_active, sched, alertReq, delReq, requests,
                 lifecycle>>

\* a manual pipeline that ends with the alert block of the loop
manual_check_monitor_insert_alerts(s) ==
  /\ manual[s].pc = "insert"
  /\ LET c == manual[s].check
         log == log_dict(c, manual[s].monitor_id, manual[s].status,
                         manual[s].error_msg, manual[s].timestamp)
         alerts == SelectSeq(alert_settings,
                             LAMBDA a : a.monitor_id = manual[s].monitor_id)
     IN /\ uptime_logs' = insert_log(uptime_logs, log)
        /\ emails' = emails \o alert_emails(alerts, c, manual[s].monitor_id,
                                 probes[c].previous_status, manual[s].status)
        /\ probes' = [probes EXCEPT
             ![c].logged = @ + 1,
             ![c].log_monitor = log.monitor_id,
             ![c].log_status = log.status,
             ![c].done = TRUE]
  /\ manual' = [manual EXCEPT ![s] = IdleManual]
  /\ UNCHANGED <<now, monitors, nextId, alert_settings,
                 monitoring_active, sched, alertReq, delReq, requests,
                 lifecycle>>

\* await db.uptime_logs.insert_one(uptime_log.dict()); return
manual_check_monitor_insert(s) ==
  /\ manual[s].pc = "insert"
  /\ LET log == log_dict(manual[s].check, manual[s].monitor_id,
                         manual[s].status, manual[s].error_msg,
                         manual[s].timestamp)
     IN /\ uptime_logs' = insert_log(uptime_logs, log)
        /\ probes' = [probes EXCEPT
             ![manual[s].check].logged =
                @ + Len(uptime_logs') - Len(uptime_logs),
             ![manual[s].check].log_monitor = log.monitor_id,
             ![manual[s].check].log_status = log.status,
             ![manual[s].check].done = TRUE]
  /\ manual' = [manual EXCEPT ![s] = IdleManual]
  /\ UNCHANGED <<now, monitors, nextId, alert_settings, emails,
                 monitoring_active, sched, alertReq, delReq, requests,
                 lifecycle>>

\* ---------------------------------------------------------------------
\* DELETE /api/monitors/{id}
\* ---------------------------------------------------------------------
\* result = await db.monitors.delete_one(...); 404 if nothing was deleted
delete_monitor_delete_one(monitor_id) ==
  /\ delReq.pc = "idle"
  /\ monitor_id \in DOMAIN monitors
  /\ monitors' = [i \in DOMAIN monitors \ {monitor_id} |-> monitors[i]]
  /\ delReq' = [pc |-> "delete_many", monitor_id |-> monitor_id]
  /\ requests < MaxRequests
  /\ requests' = requests + 1
  /\ UNCHANGED <<now, nextId, uptime_logs, alert_settings, emails,
                 monitoring_active, sched, manual, alertReq, probes,
                 lifecycle>>

\* await db.uptime_logs.delete_many(...); return 200
delete_monitor_delete_many ==
  /\ delReq.pc = "delete_many"
  /\ uptime_logs' = SelectSeq(uptime_logs,
                       LAMBDA l : l.monitor_id # delReq.monitor_id)
  /\ delReq' = IdleDelReq
  /\ UNCHANGED <<now, monitors, nextId, alert_settings, emails,
                 monitoring_active, sched, manual, alertReq, probes, requests,
                 lifecycle>>

\* ---------------------------------------------------------------------
\* POST /api/alerts and DELETE /api/alerts/{monitor_id}
\* ---------------------------------------------------------------------
\* an existence check that finds nothing
has_alert_never(alerts, monitor_id) == FALSE

has_alert(alerts, monitor_id) ==
  \E k \in 1..Len(alerts) : alerts[k].monitor_id = monitor_id

\* AlertSettings(**alert_data.dict()): email_enabled defaults to True
NewAlertSettings(monitor_id, alert_on_down, alert_on_up) ==
  [monitor_id |-> monitor_id, email_enabled |-> TRUE,
   alert_on_down |-> alert_on_down, alert_on_up |-> alert_on_up]

\* monitor = await db.monitors.find_one(...); 404 if there is none
create_alert_settings_find_monitor(s, monitor_id) ==
  /\ alertReq[s].pc = "idle"
  /\ \A r \in 1..(s - 1) : alertReq[r].pc # "idle"
  /\ alertReq' = [alertReq EXCEPT ![s] =
                    IF monitor_id \in DOMAIN monitors
                    THEN [pc |-> "find_existing", monitor_id |-> monitor_id,
                          code |-> 0]
                    ELSE [pc |-> "idle", monitor_id |-> monitor_id,
                          code |-> 404]]
  /\ requests < MaxRequests
  /\ requests' = requests + 1
  /\ UNCHANGED <<now, monitors, nextId, uptime_logs, alert_settings, emails,
                 monitoring_active, sched, manual, delReq, probes, lifecycle>>

\* existing = await db.alert_settings.find_one(...); 400 if there is one
create_alert_settings_find_existing(s) ==
  /\ alertReq[s].pc = "find_existing"
  /\ alertReq' = [alertReq EXCEPT ![s] =
                    IF has_alert(alert_settings, alertReq[s].monitor_id)
                    THEN [alertReq[s] EXCEPT !.pc = "idle", !.code = 400]
                    ELSE [alertReq[s] EXCEPT !.pc = "insert"]]
  /\ UNCHANGED <<now, monitors, nextId, uptime_logs, alert_settings, emails,
                 monitoring_active, sched, manual, delReq, probes, requests,
                 lifecycle>>

\* await db.alert_settings.insert_one(alert_settings.dict()); return.
\* The flags of the request body are first used here, so they are drawn
\* here.
create_alert_settings_insert(s, flags) ==
  /\ alertReq[s].pc = "insert"
  /\ alert_settings' = Append(alert_settings,
                         NewAlertSettings(alertReq[s].monitor_id,
                                          flags[1], flags[2]))
  /\ alertReq' = [alertReq EXCEPT ![s] =
                    [alertReq[s] EXCEPT !.pc = "idle", !.code = 200]]
  /\ UNCHANGED <<now, monitors, nextId, uptime_logs, emails,
                 monitoring_active, sched, manual, delReq, probes, requests,
                 lifecycle>>

\* result = await db.alert_settings.delete_one(...): the first match goes
delete_alert_settings(monitor_id) ==
  /\ has_alert(alert_settings, monitor_id)
  /\ LET k == CHOOSE j \in 1..Len(alert_settings) :
                /\ alert_settings[j].monitor_id = monitor_id
                /\ \A i \in 1..(j - 1) :
                      alert_settings[i].monitor_id # monitor_id
     IN alert_settings' = SubSeq(alert_settings, 1, k - 1)
                          \o SubSeq(alert_settings, k + 1,
                                    Len(alert_settings))
  /\ requests < MaxRequests
  /\ requests' = requests + 1
  /\ UNCHANGED <<now, monitors, nextId, uptime_logs, emails,
                 monitoring_active, sched, manual, alertReq, delReq, probes,
                 lifecycle>>

\* ---------------------------------------------------------------------
\* the GET handlers: one awaited find each, nothing is written
\* ---------------------------------------------------------------------
\* a request that only reads the store
ReadOnly ==
  /\ client = "open"
  /\ requests < MaxRequests
  /\ requests' = requests + 1
  /\ UNCHANGED <<now, monitors, nextId, uptime_logs, alert_settings, emails,
                 monitoring_active, sched, manual, alertReq, delReq, probes,
                 lifecycle>>

\* GET /api/monitors
get_monitors == ReadOnly
\* GET /api/monitors/{monitor_id}
get_monitor == ReadOnly
\* GET /api/dashboard/stats
get_dashboard_stats == ReadOnly
\* GET /api/alerts/{monitor_id}
get_alert_settings == ReadOnly
\* GET /api/monitors/{monitor_id}/history
get_monitor_history == ReadOnly
\* GET /api/monitors/{monitor_id}/logs
get_monitor_logs == ReadOnly

\* ---------------------------------------------------------------------
\* the system
\* ---------------------------------------------------------------------
Next ==
  \/ Tick
  \/ \E check_interval \in Intervals : create_monitor(check_interval)
  \/ \E t \in TaskIds : monitor_check_cycle_find(t)
  \/ \E t \in TaskIds : monitor_check_cycle_start(t)
  \/ \E t \in TaskIds : monitor_check_cycle_sleep(t)
  \/ \E t \in TaskIds : monitor_check_cycle_wake(t)
  \/ \E t \in TaskIds, status \in ProbeStatus :
        monitor_check_cycle_probe(t, status)
  \/ \E t \in TaskIds : monitor_check_cycle_update(t)
  \/ \E t \in TaskIds : monitor_check_cycle_insert(t)
  \/ \E t \in TaskIds : update_uptime_percentage_find(t)
  \/ \E t \in TaskIds : update_uptime_percentage_update(t)
  \/ \E t \in TaskIds : monitor_check_cycle_alert(t)
  \/ \E s \in ManualSlots, monitor_id \in MonitorIds :
        manual_check_monitor_find(s, monitor_id)
  \/ \E s \in ManualSlots, status \in ProbeStatus :
        manual_check_monitor_probe(s, status)
  \/ \E s \in ManualSlots : manual_check_monitor_update(s)
  \/ \E s \in ManualSlots : manual_check_monitor_insert(s)
  \/ \E monitor_id \in MonitorIds : delete_monitor_delete_one(monitor_id)
  \/ delete_monitor_delete_many
  \/ \E s \in AlertSlots, monitor_id \in MonitorIds :
        create_alert_settings_find_monitor(s, monitor_id)
  \/ \E s \in AlertSlots : create_alert_settings_find_existing(s)
  \/ \E s \in AlertSlots, flags \in AlertFlags :
        create_alert_settings_insert(s, flags)
  \/ \E monitor_id \in MonitorIds : delete_alert_settings(monitor_id)

Spec == Init /\ [][Next]_vars

\* ---------------------------------------------------------------------
\* the system with store calls that take no time: the clock advances
\* only while every coroutine awaits a probe or a sleep that is not over
\* ---------------------------------------------------------------------
TickAwaited ==
  /\ \A t \in TaskIds :
        \/ sched[t].pc \in {"none", "exited", "probe"}
        \/ /\ sched[t].pc = "sleep"
           /\ now < sched[t].sleep_from + SleepTicks
  /\ \A s \in ManualSlots : manual[s].pc \in {"idle", "probe"}
  /\ \A s \in AlertSlots : alertReq[s].pc = "idle"
  /\ delReq.pc = "idle"
  /\ Tick

NextTimed ==
  \/ TickAwaited
  \/ \E check_interval \in Intervals : create_monitor(check_interval)
  \/ \E t \in TaskIds : monitor_check_cycle_find(t)
  \/ \E t \in TaskIds : monitor_check_cycle_start(t)
  \/ \E t \in TaskIds : monitor_check_cycle_sleep(t)
  \/ \E t \in TaskIds : monitor_check_cycle_wake(t)
  \/ \E t \in TaskIds, status \in ProbeStatus :
        monitor_check_cycle_probe(t, status)
  \/ \E t \in TaskIds : monitor_check_cycle_update(t)
  \/ \E t \in TaskIds : monitor_check_cycle_insert(t)
  \/ \E t \in TaskIds : update_uptime_percentage_find(t)
  \/ \E t \in TaskIds : update_uptime_percentage_update(t)
  \/ \E t \in TaskIds : monitor_check_cycle_alert(t)
  \/ \E s \in ManualSlots, monitor_id \in MonitorIds :
        manual_check_monitor_find(s, monitor_id)
  \/ \E s \in ManualSlots, status \in ProbeStatus :
        manual_check_monitor_probe(s, status)
  \/ \E s \in ManualSlots : manual_check_monitor_update(s)
  \/ \E s \in ManualSlots : manual_check_monitor_insert(s)
  \/ \E monitor_id \in MonitorIds : delete_monitor_delete_one(monitor_id)
  \/ delete_monitor_delete_many
  \/ \E s \in AlertSlots, monitor_id \in MonitorIds :
        create_alert_settings_find_monitor(s, monitor_id)
  \/ \E s \in AlertSlots : create_alert_settings_find_existing(s)
  \/ \E s \in AlertSlots, flags \in AlertFlags :
        create_alert_settings_insert(s, flags)
  \/ \E monitor_id \in MonitorIds : delete_alert_settings(monitor_id)

SpecTimed == Init /\ [][NextTimed]_vars

\* ---------------------------------------------------------------------
\* the system with the GET requests as well
\* ---------------------------------------------------------------------
NextApi ==
  \/ Next
  \/ get_monitors
  \/ get_monitor
  \/ get_dashboard_stats
  \/ get_alert_settings
  \/ get_monitor_history
  \/ get_monitor_logs

SpecApi == Init /\ [][NextApi]_vars

\* ---------------------------------------------------------------------
\* startup, shutdown and cancellation
\* ---------------------------------------------------------------------
\* the module is loaded and startup_event has not run: no task, flag unset
Loaded ==
  /\ now = 0
  /\ monitors = << >>
  /\ nextId = 1
  /\ uptime_logs = << >>
  /\ alert_settings = << >>
  /\ emails = << >>
  /\ monitoring_active = FALSE
  /\ monitoring_task = None
  /\ sched = [t \in TaskIds |-> NoTask]
  /\ manual = [s \in ManualSlots |-> IdleManual]
  /\ alertReq = [s \in AlertSlots |-> IdleAlertReq]
  /\ delReq = IdleDelReq
  /\ probes = << >>
  /\ requests = 0
  /\ app = [pc |-> "startup", task |-> None]
  /\ client = "open"
  /\ unparsable = {}
  /\ call = NoCall

InitLoaded == Loaded /\ post = NoPost

\* @app.on_event("startup"): await start_monitoring_service()
startup_event ==
  /\ app.pc = "startup"
  /\ start_monitoring_service
  /\ app' = Serving
  /\ UNCHANGED <<now, monitors, nextId, uptime_logs, alert_settings, emails,
                 manual, alertReq, delReq, probes, requests, client,
                 unparsable, post, call>>

\* shutdown_event up to the await in stop_monitoring_service: the flag
\* is cleared and the task cancelled; a task that is already done is
\* awaited without suspending, so the handler runs through to
\* client.close()
stop_monitoring_service ==
  /\ app.pc = "serving"
  /\ monitoring_active' = FALSE
  /\ IF monitoring_task # None /\ sched[monitoring_task].pc # "exited"
     THEN /\ sched' = Resume(monitoring_task,
                        [sched[monitoring_task] EXCEPT
                           !.pc = "cancelled",
                           !.at = sched[monitoring_task].pc])
          /\ app' = [pc |-> "await", task |-> monitoring_task]
          /\ UNCHANGED <<monitoring_task, client>>
     ELSE /\ monitoring_task' = None
          /\ client' = "closed"
          /\ app' = [pc |-> "shutdown", task |-> None]
          /\ UNCHANGED sched
  /\ UNCHANGED <<now, monitors, nextId, uptime_logs, alert_settings, emails,
                 manual, alertReq, delReq, probes, requests, unparsable,
                 post, call>>

\* a loop whose `except Exception` catches the CancelledError: it logs
\* and awaits asyncio.sleep(30)
monitor_check_cycle_cancel_caught(t, applied) ==
  /\ sched[t].pc = "cancelled"
  /\ sched' = Resume(t, Asleep(t))
  /\ UNCHANGED <<now, monitors, nextId, uptime_logs, alert_settings, emails,
                 monitoring_active, manual, alertReq, delReq, probes,
                 requests, lifecycle>>

\* CancelledError is raised in the task at the await it is suspended on;
\* no handler of monitor_check_cycle catches it and the task ends. A
\* store write that was in flight has been applied or has not.
monitor_check_cycle_cancelled(t, applied) ==
  /\ sched[t].pc = "cancelled"
  /\ sched' = Resume(t, Exited)
  /\ LET c == sched[t].check
         id == sched[t].snapshot[sched[t].idx].id
         log == log_dict(c, id, sched[t].status, sched[t].error_msg,
                         sched[t].timestamp)
     IN CASE applied /\ sched[t].at = "update" ->
               /\ monitors' = update_check(monitors, id,
                                 sched[t].last_checked, sched[t].status)
               /\ probes' = [probes EXCEPT ![c].updated = TRUE]
               /\ UNCHANGED uptime_logs
          [] applied /\ sched[t].at = "insert" ->
               /\ uptime_logs' = insert_log(uptime_logs, log)
               /\ probes' = [probes EXCEPT
                    ![c].logged = @ + 1,
                    ![c].log_monitor = log.monitor_id,
                    ![c].log_status = log.status]
               /\ UNCHANGED monitors
          [] applied /\ sched[t].at = "uptime_update" ->
               /\ monitors' = IF id \in DOMAIN monitors
                              THEN [monitors EXCEPT
                                      ![id].uptime_percentage =
                                         sched[t].uptime]
                              ELSE monitors
               /\ UNCHANGED <<uptime_logs, probes>>
          [] OTHER -> UNCHANGED <<monitors, uptime_logs, probes>>
  /\ UNCHANGED <<now, nextId, alert_settings, emails, monitoring_active,
                 manual, alertReq, delReq, requests, lifecycle>>

\* the awaited task has ended: stop_monitoring_service sets
\* monitoring_task = None and returns, shutdown_event calls client.close()
shutdown_event ==
  /\ app.pc = "await"
  /\ sched[app.task].pc = "exited"
  /\ monitoring_task' = None
  /\ client' = "closed"
  /\ app' = [pc |-> "shutdown", task |-> None]
  /\ UNCHANGED <<now, monitors, nextId, uptime_logs, alert_settings, emails,
                 monitoring_active, sched, manual, alertReq, delReq, probes,
                 requests, unparsable, post, call>>

\* a loop without the `except Exception` around the scan: the exception
\* of the store call ends the coroutine
monitor_check_cycle_raises_out(t) ==
  /\ sched[t].pc \in {"find", "update", "insert", "alert"}
  /\ sched' = Resume(t, Exited)
  /\ UNCHANGED <<now, monitors, nextId, uptime_logs, alert_settings, emails,
                 monitoring_active, manual, alertReq, delReq, probes,
                 requests, lifecycle>>

\* a store call of the loop raises: `except Exception` logs and awaits
\* asyncio.sleep(30); the rest of the scan is not run
monitor_check_cycle_except(t) ==
  /\ sched[t].pc \in {"find", "update", "insert", "alert"}
  /\ sched' = Resume(t, Asleep(t))
  /\ UNCHANGED <<now, monitors, nextId, uptime_logs, alert_settings, emails,
                 monitoring_active, manual, alertReq, delReq, probes,
                 requests, lifecycle>>

\* a store call of update_uptime_percentage raises: its own
\* `except Exception` logs and the function returns
update_uptime_percentage_except(t) ==
  /\ sched[t].pc \in {"uptime", "uptime_update"}
  /\ sched' = Resume(t, AfterUptime(t))
  /\ probes' = [probes EXCEPT ![sched[t].check].done =
                  ~status_changed(sched[t].previous_status, sched[t].status)]
  /\ UNCHANGED <<now, monitors, nextId, uptime_logs, alert_settings, emails,
                 monitoring_active, manual, alertReq, delReq, requests,
                 lifecycle>>

\* monitor = Monitor(**monitor_doc) raises on a document of the scan:
\* the same `except Exception`
monitor_check_cycle_unparsable(t) ==
  /\ sched[t].pc = "next"
  /\ LET i == next_due(sched[t].snapshot, sched[t].idx, now)
     IN /\ i <= Len(sched[t].snapshot)
        /\ ~sched[t].snapshot[i].parsable
        /\ sched' = Resume(t, Asleep(t))
  /\ UNCHANGED <<now, monitors, nextId, uptime_logs, alert_settings, emails,
                 monitoring_active, manual, alertReq, delReq, probes,
                 requests, lifecycle>>

\* a store call issued on the closed client raises
monitor_check_cycle_closed(t) ==
  /\ client = "closed"
  /\ monitor_check_cycle_except(t)

update_uptime_percentage_closed(t) ==
  /\ client = "closed"
  /\ update_uptime_percentage_except(t)

NextLife ==
  \/ TickAwaited
  \/ startup_event
  \/ \E check_interval \in Intervals : create_monitor(check_interval)
  \/ \E t \in TaskIds : monitor_check_cycle_find(t)
  \/ \E t \in TaskIds : monitor_check_cycle_start(t)
  \/ \E t \in TaskIds : monitor_check_cycle_sleep(t)
  \/ \E t \in TaskIds : monitor_check_cycle_wake(t)
  \/ \E t \in TaskIds, status \in ProbeStatus :
        monitor_check_cycle_probe(t, status)
  \/ \E t \in TaskIds : monitor_check_cycle_update(t)
  \/ \E t \in TaskIds : monitor_check_cycle_insert(t)
  \/ \E t \in TaskIds : update_uptime_percentage_find(t)
  \/ \E t \in TaskIds : update_uptime_percentage_update(t)
  \/ \E t \in TaskIds : monitor_check_cycle_alert(t)
  \/ stop_monitoring_service
  \/ \E t \in TaskIds, applied \in BOOLEAN :
        monitor_check_cycle_cancelled(t, applied)
  \/ shutdown_event
  \/ \E t \in TaskIds : monitor_check_cycle_closed(t)
  \/ \E t \in TaskIds : update_uptime_percentage_closed(t)

SpecLife == InitLoaded /\ [][NextLife]_vars

\* the event loop runs every task that is ready: the cancelled task is
\* resumed with its CancelledError, and the coroutine that awaits a task
\* is resumed when the task is done
SpecLifeFair ==
  /\ SpecLife
  /\ WF_vars(\E t \in TaskIds, applied \in BOOLEAN :
                monitor_check_cycle_cancelled(t, applied))
  /\ WF_vars(shutdown_event)

\* ---------------------------------------------------------------------
\* the engine with one monitor that POST /api/monitors has created and
\* POST /api/alerts has given alert settings with every flag set; the
\* clients send manual checks only
\* ---------------------------------------------------------------------
InitAlerts ==
  /\ now = 0
  /\ \E check_interval \in Intervals :
        monitors = (1 :> NewMonitor(check_interval))
  /\ nextId = 2
  /\ uptime_logs = << >>
  /\ alert_settings = <<NewAlertSettings(1, TRUE, TRUE)>>
  /\ emails = << >>
  /\ monitoring_active = TRUE
  /\ monitoring_task = 1
  /\ sched = [t \in TaskIds |->
                IF t = 1 THEN [IdleSched EXCEPT !.scan_from = 0] ELSE NoTask]
  /\ manual = [s \in ManualSlots |-> IdleManual]
  /\ alertReq = [s \in AlertSlots |-> IdleAlertReq]
  /\ delReq = IdleDelReq
  /\ probes = << >>
  /\ requests = 0
  /\ app = Serving
  /\ client = "open"
  /\ unparsable = {}
  /\ post = NoPost
  /\ call = NoCall

\* the steps of the background task
monitor_check_cycle(t) ==
  \/ monitor_check_cycle_find(t)
  \/ monitor_check_cycle_start(t)
  \/ monitor_check_cycle_sleep(t)
  \/ monitor_check_cycle_wake(t)
  \/ \E status \in ProbeStatus : monitor_check_cycle_probe(t, status)
  \/ monitor_check_cycle_update(t)
  \/ monitor_check_cycle_insert(t)
  \/ update_uptime_percentage_find(t)
  \/ update_uptime_percentage_update(t)
  \/ monitor_check_cycle_alert(t)

\* the steps of a manual check after its find_one
manual_check_monitor(s) ==
  \/ \E status \in ProbeStatus : manual_check_monitor_probe(s, status)
  \/ manual_check_monitor_update(s)
  \/ manual_check_monitor_insert(s)

NextAlerts ==
  \/ TickAwaited
  \/ \E t \in TaskIds : monitor_check_cycle(t)
  \/ \E s \in ManualSlots, monitor_id \in MonitorIds :
        manual_check_monitor_find(s, monitor_id)
  \/ \E s \in ManualSlots : manual_check_monitor(s)

\* the event loop resumes every coroutine whose await is over, a probe
\* returns or times out, and time passes
SpecAlerts ==
  /\ InitAlerts
  /\ [][NextAlerts]_vars
  /\ \A t \in TaskIds : WF_vars(monitor_check_cycle(t))
  /\ \A s \in ManualSlots : WF_vars(manual_check_monitor(s))
  /\ WF_vars(TickAwaited)

\* ---------------------------------------------------------------------
\* one POST /api/monitors with any body, during the life of the
\* application
\* ---------------------------------------------------------------------
InitCreate == Loaded /\ post \in Posts

\* the request is handled
create_monitor_post ==
  /\ post.pc = "pending"
  /\ \E check_interval \in Intervals :
        create_monitor_request(check_interval, post.monitor_type, post.body)
  /\ post' = [post EXCEPT !.pc = "done",
                !.code = create_monitor_status(post.monitor_type, post.body)]

NextCreate ==
  \/ startup_event
  \/ create_monitor_post
  \/ \E t \in TaskIds : monitor_check_cycle_wake(t)
  \/ \E t \in TaskIds : monitor_check_cycle_find(t)
  \/ stop_monitoring_service
  \/ \E t \in TaskIds, applied \in BOOLEAN :
        monitor_check_cycle_cancelled(t, applied)
  \/ shutdown_event

SpecCreate == InitCreate /\ [][NextCreate]_vars

\* ---------------------------------------------------------------------
\* the running system with failures: store calls that raise, a stored
\* document that no longer parses, SMTP sends that fail
\* ---------------------------------------------------------------------
MaxUnparsable == 1

\* the messages of a block that reach the SMTP server when the sends at
\* the positions in failed raise inside send_alert_email
delivered(msgs, failed) ==
  LET sent == SortedIds((1..Len(msgs)) \ failed)
  IN [k \in 1..Len(sent) |-> msgs[sent[k]]]

\* an exception of send_alert_email that reaches the loop: the scan is
\* abandoned for the sleep of `except Exception`
monitor_check_cycle_alert_raises(t) ==
  /\ sched[t].pc = "alert"
  /\ LET id == sched[t].snapshot[sched[t].idx].id
         c == sched[t].check
         alerts == SelectSeq(alert_settings, LAMBDA a : a.monitor_id = id)
         msgs == alert_emails(alerts, c, id, sched[t].previous_status,
                              sched[t].status)
     IN /\ msgs # << >>
        /\ probes' = [probes EXCEPT ![c].send_failed = TRUE]
  /\ sched' = Resume(t, Asleep(t))
  /\ UNCHANGED <<now, monitors, nextId, uptime_logs, alert_settings, emails,
                 monitoring_active, manual, alertReq, delReq, requests,
                 lifecycle>>

\* the alert block when SMTP fails for some of its messages:
\* send_alert_email catches the exception, logs it and returns False;
\* the block goes on with the next alert document
monitor_check_cycle_alert_failed(t) ==
  /\ sched[t].pc = "alert"
  /\ LET id == sched[t].snapshot[sched[t].idx].id
         c == sched[t].check
         alerts == SelectSeq(alert_settings, LAMBDA a : a.monitor_id = id)
         msgs == alert_emails(alerts, c, id, sched[t].previous_status,
                              sched[t].status)
     IN /\ \E failed \in SUBSET (1..Len(msgs)) :
              /\ failed # {}
              /\ emails' = emails \o delivered(msgs, failed)
        /\ probes' = [probes EXCEPT
             ![c].consulted = TRUE,
             ![c].read = Len(alerts),
             ![c].all_on =
                \A k \in 1..Len(alerts) :
                   /\ alerts[k].email_enabled
                   /\ alerts[k].alert_on_down
                   /\ alerts[k].alert_on_up,
             ![c].send_failed = TRUE,
             ![c].done = TRUE]
  /\ sched' = Resume(t, NextDocument(t))
  /\ UNCHANGED <<now, monitors, nextId, uptime_logs, alert_settings,
                 monitoring_active, manual, alertReq, delReq, requests,
                 lifecycle>>

\* another writer of the database leaves the document of monitor_id in
\* a shape that Monitor(**monitor_doc) rejects
document_unparsable(monitor_id) ==
  /\ monitor_id \in DOMAIN monitors
  /\ monitor_id \notin unparsable
  /\ Cardinality(unparsable) < MaxUnparsable
  /\ unparsable' = unparsable \cup {monitor_id}
  /\ UNCHANGED <<now, monitors, nextId, uptime_logs, alert_settings, emails,
                 monitoring_active, sched, manual, alertReq, delReq, probes,
                 requests, monitoring_task, app, client, post, call>>

NextFaulty ==
  \/ TickAwaited
  \/ \E check_interval \in Intervals : create_monitor(check_interval)
  \/ \E t \in TaskIds : monitor_check_cycle_find(t)
  \/ \E t \in TaskIds : monitor_check_cycle_start(t)
  \/ \E t \in TaskIds : monitor_check_cycle_sleep(t)
  \/ \E t \in TaskIds : monitor_check_cycle_wake(t)
  \/ \E t \in TaskIds, status \in ProbeStatus :
        monitor_check_cycle_probe(t, status)
  \/ \E t \in TaskIds : monitor_check_cycle_update(t)
  \/ \E t \in TaskIds : monitor_check_cycle_insert(t)
  \/ \E t \in TaskIds : update_uptime_percentage_find(t)
  \/ \E t \in TaskIds : update_uptime_percentage_update(t)
  \/ \E t \in TaskIds : monitor_check_cycle_alert(t)
  \/ \E t \in TaskIds : monitor_check_cycle_alert_failed(t)
  \/ \E s \in AlertSlots, monitor_id \in MonitorIds :
        create_alert_settings_find_monitor(s, monitor_id)
  \/ \E s \in AlertSlots : create_alert_settings_find_existing(s)
  \/ \E s \in AlertSlots, flags \in AlertFlags :
        create_alert_settings_insert(s, flags)
  \/ \E monitor_id \in MonitorIds : document_unparsable(monitor_id)
  \/ \E t \in TaskIds : monitor_check_cycle_unparsable(t)
  \/ \E t \in TaskIds : monitor_check_cycle_except(t)
  \/ \E t \in TaskIds : update_uptime_percentage_except(t)

SpecFaulty == Init /\ [][NextFaulty]_vars

\* ---------------------------------------------------------------------
\* the running system with its https monitors probed by check_url, and
\* with probe primitives that raise
\* ---------------------------------------------------------------------
\* status codes a target answers with
HttpCodes == {200, 201, 404, 500}
\* what session.get gives: a response, asyncio.TimeoutError or another
\* exception
HttpResponses ==
  [kind : {"response"}, code : HttpCodes]
     \cup {[kind |-> "timeout", code |-> 0], [kind |-> "error", code |-> 0]}
\* the awaited primitive raised
Raised == [kind |-> "raised", code |-> 0]
\* except Exception as e: status = MonitorStatus.DOWN; error_msg = str(e)
ExceptionResult ==
  [status |-> DOWN, error_message |-> [text |-> "str(e)", code |-> 0]]

\* status, response_time, error_msg = await check_url(...)
monitor_check_cycle_probe_url(t, response) ==
  monitor_check_cycle_probed(t, response, check_url(response))

\* an exception of the primitive that no handler of the loop body
\* catches: it reaches the handler around the scan
monitor_check_cycle_probe_escapes(t) ==
  /\ sched[t].pc = "probe"
  /\ sched' = Resume(t, Asleep(t))
  /\ probes' = [probes EXCEPT ![sched[t].check].response = Raised]
  /\ UNCHANGED <<now, monitors, nextId, uptime_logs, alert_settings, emails,
                 monitoring_active, manual, alertReq, delReq, requests,
                 lifecycle>>

\* the primitive raises inside the try of the loop body
monitor_check_cycle_probe_raises(t) ==
  monitor_check_cycle_probed(t, Raised, ExceptionResult)

manual_check_monitor_probe_url(s, response) ==
  manual_check_monitor_probed(s, response, check_url(response))

\* the primitive raises inside the try of manual_check_monitor
manual_check_monitor_probe_raises(s) ==
  manual_check_monitor_probed(s, Raised, ExceptionResult)

NextProbes ==
  \/ TickAwaited
  \/ \E check_interval \in Intervals : create_monitor(check_interval)
  \/ \E t \in TaskIds : monitor_check_cycle_find(t)
  \/ \E t \in TaskIds : monitor_check_cycle_start(t)
  \/ \E t \in TaskIds : monitor_check_cycle_sleep(t)
  \/ \E t \in TaskIds : monitor_check_cycle_wake(t)
  \/ \E t \in TaskIds, response \in HttpResponses :
        monitor_check_cycle_probe_url(t, response)
  \/ \E t \in TaskIds : monitor_check_cycle_probe_raises(t)
  \/ \E t \in TaskIds : monitor_check_cycle_update(t)
  \/ \E t \in TaskIds : monitor_check_cycle_insert(t)
  \/ \E t \in TaskIds : update_uptime_percentage_find(t)
  \/ \E t \in TaskIds : update_uptime_percentage_update(t)
  \/ \E t \in TaskIds : monitor_check_cycle_alert(t)
  \/ \E s \in ManualSlots, monitor_id \in MonitorIds :
        manual_check_monitor_find(s, monitor_id)
  \/ \E s \in ManualSlots, response \in HttpResponses :
        manual_check_monitor_probe_url(s, response)
  \/ \E s \in ManualSlots : manual_check_monitor_probe_raises(s)
  \/ \E s \in ManualSlots : manual_check_monitor_update(s)
  \/ \E s \in ManualSlots : manual_check_monitor_insert(s)

SpecProbes == Init /\ [][NextProbes]_vars

\* ---------------------------------------------------------------------
\* the ssl branch of the check pipelines: the threshold handed to
\* check_ssl_certificate and the decision it takes after the handshake
\* ---------------------------------------------------------------------
MaxDays == 32
\* days_until_expiry = (expiry_date - datetime.utcnow()).days
Days == (0 - 2)..MaxDays
\* monitor.ssl_expiry_threshold: Optional[int]
Thresholds == {None, 0, 1, 7, 30, 31}

\* every variable but call
engine == <<now, monitors, nextId, uptime_logs, alert_settings, emails,
            monitoring_active, sched, manual, alertReq, delReq, probes,
            requests, monitoring_task, app, client, unparsable, post>>

\* `monitor.ssl_expiry_threshold or 30`: None and 0 are both false
or_30(ssl_expiry_threshold) ==
  IF ssl_expiry_threshold \in {None, 0} THEN 30 ELSE ssl_expiry_threshold

\* the three returns that follow a handshake
check_ssl_certificate(days_until_expiry, expiry_threshold) ==
  IF days_until_expiry < 0
  THEN [status |-> DOWN,
        error_message |-> [text |-> "Certificate expired",
                           code |-> 0 - days_until_expiry]]
  ELSE IF days_until_expiry <= expiry_threshold
  THEN [status |-> WARNING,
        error_message |-> [text |-> "Certificate expires in",
                           code |-> days_until_expiry]]
  ELSE ProbeResult(UP)

\* a check of an ssl monitor whose handshake has succeeded
SslCall(days_until_expiry, ssl_expiry_threshold) ==
  [pc |-> "pending", by |-> "none",
   days_until_expiry |-> days_until_expiry,
   ssl_expiry_threshold |-> ssl_expiry_threshold,
   result |-> ProbeResult(UNKNOWN)]

InitSsl ==
  Started /\ call \in {SslCall(d, t) : d \in Days, t \in Thresholds}

\* the call in the pipeline named by
check_ssl(by) ==
  /\ call.pc = "pending"
  /\ call' = [call EXCEPT !.pc = "done", !.by = by,
                !.result = check_ssl_certificate(call.days_until_expiry,
                              or_30(call.ssl_expiry_threshold))]
  /\ UNCHANGED engine

\* monitor_check_cycle, monitor_type ssl
monitor_check_cycle_ssl == check_ssl("scheduler")

\* manual_check_monitor, monitor_type ssl
manual_check_monitor_ssl == check_ssl("manual")

NextSsl == monitor_check_cycle_ssl \/ manual_check_monitor_ssl

SpecSsl == InitSsl /\ [][NextSsl]_vars

\* ---------------------------------------------------------------------
\* check_api_endpoint: the decision taken once the response has arrived
\* ---------------------------------------------------------------------
\* a value of json.loads(response_text), with its str(); a text that
\* json.loads rejects has type "invalid"
Json(type, text, items) == [type |-> type, text |-> text, items |-> items]

\* the responses: <html>, {"status": "ok"}, {"status": "bad"},
\* {"status": true}, {"status": ""}, {"data": {"status": "ok"}},
\* {"data": "ok"}, ["ok"]
ResponseTexts ==
  LET str(text) == Json("str", text, << >>)
      dict(key, value) ==
        Json("dict", "{...}", <<[key |-> key, value |-> value]>>)
  IN {Json("invalid", "<html>", << >>),
      dict("status", str("ok")), dict("status", str("bad")),
      dict("status", Json("bool", "True", << >>)),
      dict("status", str("")),
      dict("data", dict("status", str("ok"))),
      dict("data", str("ok")),
      Json("list", "['ok']", << >>)}

\* Optional[str] arguments: None or a text; json_path is held as the
\* keys and the dots it is written with
OptionalStr(none, text) == [none |-> none, text |-> text]

\* None, "", "status", "data.status", "status."
JsonPaths ==
  {OptionalStr(TRUE, << >>), OptionalStr(FALSE, << >>),
   OptionalStr(FALSE, <<"status">>),
   OptionalStr(FALSE, <<"data", ".", "status">>),
   OptionalStr(FALSE, <<"status", ".">>)}

\* None, "", "ok", "True"
JsonValues ==
  {OptionalStr(TRUE, ""), OptionalStr(FALSE, ""), OptionalStr(FALSE, "ok"),
   OptionalStr(FALSE, "True")}

\* expected_response_time: Optional[float], in the unit of response_time
TimeLimits == {None, 0, 1}

\* `if x`: None, 0, 0.0 and the empty string are false
truthy(x) == x \notin {None, 0}
truthy_str(x) == ~x.none /\ Len(x.text) > 0

RECURSIVE split(_)
\* json_path.split('.')
split(text) ==
  IF text = << >> THEN <<"">>
  ELSE IF Head(text) = "." THEN <<"">> \o split(Tail(text))
  ELSE IF Len(text) = 1 THEN text
  ELSE <<Head(text)>> \o split(Tail(Tail(text)))

RECURSIVE lookup(_, _)
\* for key in keys: value = value[key]; KeyError and TypeError give a
\* value of type "error"
lookup(value, keys) ==
  IF keys = << >> THEN value
  ELSE IF /\ value.type = "dict"
          /\ \E i \in 1..Len(value.items) : value.items[i].key = Head(keys)
  THEN lookup((CHOOSE m \in {value.items[i] : i \in 1..Len(value.items)} :
                 m.key = Head(keys)).value, Tail(keys))
  ELSE Json("error", "", << >>)

\* what check_api_endpoint returns: status, error, json_validation_passed
ApiResult(status, error, json_validation_passed) ==
  [status |-> status, error |-> error,
   json_validation_passed |-> json_validation_passed]

\* the body of `async with session.request(...) as response`; c holds
\* the arguments and the response
check_api_endpoint(c) ==
  IF c.status # c.expected_status_code
  THEN ApiResult(DOWN, "Expected status", FALSE)
  ELSE IF truthy(c.expected_response_time)
          /\ c.response_time > c.expected_response_time
  THEN ApiResult(WARNING, "Response time exceeds limit", FALSE)
  ELSE IF truthy_str(c.json_path) /\ truthy_str(c.expected_json_value)
  THEN IF c.response_text.type = "invalid"
       THEN ApiResult(DOWN, "JSON validation error", FALSE)
       ELSE LET value == lookup(c.response_text, split(c.json_path.text))
            IN IF value.type = "error"
               THEN ApiResult(DOWN, "JSON validation error", FALSE)
               ELSE IF value.text # c.expected_json_value.text
               THEN ApiResult(DOWN, "JSON validation failed", FALSE)
               ELSE ApiResult(UP, "", TRUE)
  ELSE ApiResult(UP, "", TRUE)

\* the arguments are bound and the response has arrived
InitEndpoint ==
  /\ Started
  /\ \E status \in {200, 404}, expected_status_code \in {200, 404},
        response_time \in 1..MaxTime,
        expected_response_time \in TimeLimits, json_path \in JsonPaths,
        expected_json_value \in JsonValues, response_text \in ResponseTexts :
        call = [pc |-> "pending", status |-> status,
                expected_status_code |-> expected_status_code,
                response_time |-> response_time,
                expected_response_time |-> expected_response_time,
                json_path |-> json_path,
                expected_json_value |-> expected_json_value,
                response_text |-> response_text,
                result |-> ApiResult(UNKNOWN, "", FALSE)]

\* the primitive returns
check_api_endpoint_returns ==
  /\ call.pc = "pending"
  /\ call' = [call EXCEPT !.pc = "done", !.result = check_api_endpoint(call)]
  /\ UNCHANGED engine

NextEndpoint == check_api_endpoint_returns

SpecEndpoint == InitEndpoint /\ [][NextEndpoint]_vars

\* ---------------------------------------------------------------------
\* GET /api/monitors/{id}/history: what the handler computes from the
\* logs of the monitor.  Time is counted in half hours; a log record
\* stands for count logs with one timestamp, status and response_time
\* ---------------------------------------------------------------------
MaxBatches == 2
MaxStamp == 3
TicksPerHour == 2
ToListLength == 1000

\* the logs of the monitor in the store, in insertion order
LogBatches ==
  [timestamp : 0..MaxStamp, status : {UP, DOWN, WARNING},
   response_time : {0, 1, 3}, count : {1, 600}]

\* timestamp.replace(minute=0, second=0, microsecond=0)
hour_key(timestamp) == timestamp - (timestamp % TicksPerHour)

RECURSIVE sort_timestamp(_)
\* .sort("timestamp", 1)
sort_timestamp(logs) ==
  IF logs = << >> THEN << >>
  ELSE LET i == CHOOSE i \in 1..Len(logs) :
                  /\ \A j \in 1..Len(logs) :
                        logs[i].timestamp <= logs[j].timestamp
                  /\ \A j \in 1..(i - 1) :
                        logs[j].timestamp > logs[i].timestamp
       IN <<logs[i]>> \o sort_timestamp(SubSeq(logs, 1, i - 1)
                                         \o SubSeq(logs, i + 1, Len(logs)))

RECURSIVE to_list(_, _)
\* .to_list(length): the first length logs of the cursor
to_list(logs, length) ==
  IF logs = << >> \/ length = 0 THEN << >>
  ELSE IF Head(logs).count <= length
  THEN <<Head(logs)>> \o to_list(Tail(logs), length - Head(logs).count)
  ELSE <<[Head(logs) EXCEPT !.count = length]>>

RECURSIVE count_logs(_)
\* the number of logs a sequence of records stands for
count_logs(logs) ==
  IF logs = << >> THEN 0 ELSE Head(logs).count + count_logs(Tail(logs))

RECURSIVE total_response_time(_)
\* the sum of the response_time of the logs
total_response_time(logs) ==
  IF logs = << >> THEN 0
  ELSE Head(logs).response_time * Head(logs).count
          + total_response_time(Tail(logs))

\* one entry of history: the loop over the logs of one hour_key, then
\* the averages and percentages
hourly_data(logs, key) ==
  LET hour == SelectSeq(logs, LAMBDA l : hour_key(l.timestamp) = key)
      up == SelectSeq(hour, LAMBDA l : l.status = UP)
      timed == SelectSeq(up, LAMBDA l : truthy(l.response_time))
      total_checks == count_logs(hour)
  IN [timestamp |-> key,
      uptime_percentage |->
         IF total_checks > 0
         THEN Fraction(count_logs(up) * 100, total_checks) ELSE <<0, 1>>,
      avg_response_time |->
         IF count_logs(timed) > 0
         THEN Fraction(total_response_time(timed) * 1000, count_logs(timed))
         ELSE <<0, 1>>,
      total_checks |-> total_checks]

\* the list the handler returns at time t for the window of hours
history(stored, t, hours) ==
  LET time_ago == t - hours * TicksPerHour
      logs == to_list(sort_timestamp(
                 SelectSeq(stored, LAMBDA l : l.timestamp >= time_ago)),
                 ToListLength)
      keys == SortedIds({hour_key(logs[i].timestamp) : i \in 1..Len(logs)})
  IN [k \in 1..Len(keys) |-> hourly_data(logs, keys[k])]

\* the request has arrived: the logs of the monitor, the time and hours
InitHistory ==
  /\ Started
  /\ \E n \in 0..MaxBatches, hours \in 1..2 :
        \E logs \in [1..n -> LogBatches] :
           call = [pc |-> "pending", logs |-> logs, now |-> MaxStamp,
                   hours |-> hours, result |-> << >>]

\* return history
get_monitor_history_returns ==
  /\ call.pc = "pending"
  /\ call' = [call EXCEPT !.pc = "done",
                          !.result = history(call.logs, call.now, call.hours)]
  /\ UNCHANGED engine

NextHistory == get_monitor_history_returns

SpecHistory == InitHistory /\ [][NextHistory]_vars

\* ---------------------------------------------------------------------
\* properties
\* ---------------------------------------------------------------------
ProbeToInsert == {"probe", "update", "insert"}

\* the scheduler is between the start of a probe of m and its log insert
SchedChecking(m) ==
  \E t \in TaskIds : /\ sched[t].pc \in ProbeToInsert
                      /\ sched[t].snapshot[sched[t].idx].id = m

\* request s is between the start of a probe of m and its log insert
ManualChecking(s, m) ==
  manual[s].pc \in ProbeToInsert /\ manual[s].monitor_id = m

InFlight(m) ==
  (IF SchedChecking(m) THEN 1 ELSE 0)
  + Cardinality({s \in ManualSlots : ManualChecking(s, m)})

\* check c has not yet returned from its insert_one
BeforeInserted(c) ==
  \/ \E t \in TaskIds : sched[t].pc \in ProbeToInsert /\ sched[t].check = c
  \/ \E s \in ManualSlots : manual[s].pc \in ProbeToInsert
                            /\ manual[s].check = c

ChecksOf(m) == SelectSeq(probes, LAMBDA p : p.monitor_id = m)
EmailsOf(m) == SelectSeq(emails, LAMBDA e : e.monitor_id = m)
AlertsOf(alerts, m) == SelectSeq(alerts, LAMBDA a : a.monitor_id = m)

\* C1: no two probes of one monitor are in flight together (scheduler
\* check and manual check, or two manual checks), from the start of the
\* probe to the end of the check's store writes.
C1_NoOverlappingProbes == \A m \in MonitorIds : InFlight(m) <= 1

\* C2: a RECOVERY email is sent exactly for a scheduler check that moved
\* the status from down or warning to up with alert_on_up and
\* email_enabled set; never for a check whose new status is not up.
C2_RecoveryIffBackUp ==
  /\ \A k \in 1..Len(emails) :
        emails[k].kind = "RECOVERY"
        => /\ emails[k].status = UP
           /\ emails[k].previous_status \in {DOWN, WARNING}
  /\ \A c \in 1..Len(probes) :
        ( /\ probes[c].done /\ probes[c].by = "scheduler"
          /\ probes[c].status = UP
          /\ probes[c].previous_status \in {DOWN, WARNING}
          /\ probes[c].read >= 1 /\ probes[c].all_on )
        => \E k \in 1..Len(emails) :
              emails[k].check = c /\ emails[k].kind = "RECOVERY"

\* C3: the email sent for a change of status to warning (alert_on_down
\* and email_enabled set) is a DOWN alert, not a recovery message.
C3_WarningSendsDown ==
  \A k \in 1..Len(emails) :
     emails[k].status = WARNING => emails[k].kind = "DOWN"

\* C4: a scheduler check sends no email when previous_status is unknown
\* and none when the new status equals it; the alert settings are read
\* exactly when previous_status is not unknown and differs from the new
\* status.
C4_AlertOnlyOnKnownChange ==
  /\ \A k \in 1..Len(emails) :
        /\ emails[k].previous_status # UNKNOWN
        /\ emails[k].previous_status # emails[k].status
        /\ probes[emails[k].check].by = "scheduler"
  /\ \A c \in 1..Len(probes) :
        /\ probes[c].consulted
           => /\ probes[c].previous_status # UNKNOWN
              /\ probes[c].previous_status # probes[c].status
        /\ (probes[c].done /\ probes[c].by = "scheduler")
           => ( probes[c].consulted
                <=> /\ probes[c].previous_status # UNKNOWN
                    /\ probes[c].previous_status # probes[c].status )

\* a first check (unknown -> X) has finished without reading the alert
\* settings its monitor has, and a later check that changed the status
\* has read them and sent an email
C4_Witness ==
  /\ \E c \in 1..Len(probes) :
        /\ probes[c].done /\ probes[c].by = "scheduler"
        /\ probes[c].previous_status = UNKNOWN
        /\ ~probes[c].consulted
        /\ EmailsOf(probes[c].monitor_id) # << >>
  /\ \E c \in 1..Len(probes) :
        /\ probes[c].done /\ probes[c].consulted
        /\ \E k \in 1..Len(emails) : emails[k].check = c

\* number of positions of cs whose status differs from the one before
Changes(cs) ==
  Cardinality({i \in 2..Len(cs) : cs[i].status # cs[i - 1].status})

\* every check of m was made by the scheduler and has finished
SchedulerOnly(m) ==
  \A c \in 1..Len(probes) :
     probes[c].monitor_id = m
     => probes[c].by = "scheduler" /\ probes[c].done

\* every alert block run for m found alert settings, all with
\* email_enabled, alert_on_down and alert_on_up set
AlertsAllOn(m) ==
  \A c \in 1..Len(probes) :
     (probes[c].monitor_id = m /\ probes[c].consulted)
     => probes[c].read >= 1 /\ probes[c].all_on

\* C5: for a monitor with all alert flags set that only the scheduler
\* checks, the number of emails equals the number of checks whose
\* outcome differs from the preceding check's outcome (the first check
\* not counted).
C5_OneEmailPerChange ==
  \A m \in MonitorIds :
     (SchedulerOnly(m) /\ AlertsAllOn(m))
     => Len(EmailsOf(m)) = Changes(ChecksOf(m))

\* C6: when DELETE /api/monitors/{id} returns, the store holds no
\* UptimeLog and no AlertSettings of that monitor.
C6_CascadeDelete ==
  [][ (delReq.pc = "delete_many" /\ delReq'.pc = "idle")
      => /\ \A k \in 1..Len(uptime_logs') :
               uptime_logs'[k].monitor_id # delReq.monitor_id
         /\ AlertsOf(alert_settings', delReq.monitor_id) = << >>
    ]_vars

\* C7: at most one AlertSettings record per monitor id, at any time.
C7_UniqueAlertSettings ==
  \A m \in MonitorIds : Len(AlertsOf(alert_settings, m)) <= 1

C9_UptimeAfterCheck ==
  [][ \A c \in 1..Len(probes) :
        (~probes[c].done /\ probes'[c].done)
        => LET m == probes[c].monitor_id
               logs == recent_logs(uptime_logs', m, now')
           IN (m \in DOMAIN monitors' /\ logs # << >>)
              => monitors'[m].uptime_percentage = uptime_percentage(logs)
    ]_vars

\* C10: two consecutive probes of a monitor start at least
\* check_interval apart.
C10_IntervalRespected ==
  \A i, j \in 1..Len(probes) :
     ( /\ i < j
       /\ probes[i].monitor_id = probes[j].monitor_id
       /\ \A k \in (i + 1)..(j - 1) :
             probes[k].monitor_id # probes[i].monitor_id )
     => probes[j].start - probes[i].start >= probes[j].interval

\* C11: consecutive probes of a monitor start less than check_interval
\* plus one scheduler tick apart, whatever the other monitors and the
\* duration of the probes (stated for two scheduler probes with no
\* manual check between them).
C11_ProbedWithinATick ==
  \A i, j \in 1..Len(probes) :
     ( /\ i < j
       /\ probes[i].by = "scheduler" /\ probes[j].by = "scheduler"
       /\ probes[i].monitor_id = probes[j].monitor_id
       /\ \A k \in (i + 1)..(j - 1) :
             probes[k].monitor_id # probes[i].monitor_id )
     => probes[j].start - probes[i].start < probes[j].interval + SleepTicks

\* a step in which a check of monitor m writes its outcome `status`
CheckWrites(m, status) ==
  \/ \E t \in TaskIds :
        /\ sched[t].pc = "update" /\ sched'[t].pc = "insert"
        /\ sched[t].snapshot[sched[t].idx].id = m
        /\ sched[t].status = status
  \/ \E s \in ManualSlots :
        /\ manual[s].pc = "update" /\ manual'[s].pc = "insert"
        /\ manual[s].monitor_id = m
        /\ manual[s].status = status

\* C12: the status of an existing monitor changes only in the step in
\* which a check writes its probe's outcome, never in a step of another
\* API operation; a monitor that appears has status unknown, no
\* last_checked and uptime_percentage 0.
C12_StatusOnlyFromProbe ==
  [][ \A m \in DOMAIN monitors' :
        IF m \in DOMAIN monitors
        THEN monitors'[m].status # monitors[m].status
             => /\ CheckWrites(m, monitors'[m].status)
                /\ requests' = requests
                /\ alertReq' = alertReq /\ delReq' = delReq
        ELSE /\ monitors'[m].status = UNKNOWN
             /\ monitors'[m].last_checked = None
             /\ monitors'[m].uptime_percentage = <<0, 1>>
    ]_vars

\* every request has been received, among them two create_monitor and a
\* POST /api/alerts that stored its record; the first monitor has been
\* checked and the second is as it was created
C12_Witness ==
  /\ requests = MaxRequests
  /\ DOMAIN monitors = {1, 2}
  /\ monitors[1].status \in ProbeStatus
  /\ monitors[2].status = UNKNOWN
  /\ alert_settings # << >>

\* C13: the stored last_checked of a monitor never decreases, under any
\* interleaving of scheduler checks and manual checks.
C13_LastCheckedMonotonic ==
  [][ \A m \in DOMAIN monitors \cap DOMAIN monitors' :
        monitors'[m].last_checked >= monitors[m].last_checked
    ]_vars

\* C14: when two monitors are due in one scan their probes run
\* concurrently and a slow probe does not delay the other: once time has
\* passed since a probe of the scan started and that probe is still in
\* flight, no later document of the scan that was due then is still
\* waiting for its probe to start.
C14_DueProbesStartTogether ==
  \A t \in TaskIds :
     (sched[t].pc = "probe" /\ now > sched[t].last_checked)
     => \A j \in (sched[t].idx + 1)..Len(sched[t].snapshot) :
           ~is_due(sched[t].snapshot[j], sched[t].last_checked)

\* C15: when the engine stop cancels the scheduler during a check, that
\* check writes neither the monitor update nor a log: no monitor is left
\* with the status and last_checked of a check that has no log, once the
\* task running the check has ended (the store still open).
C15_CancelledCheckWritesNothing ==
  \A c \in 1..Len(probes) :
     (client = "open" /\ probes[c].updated /\ probes[c].logged = 0)
        => \/ BeforeInserted(c)
           \/ \E t \in TaskIds : /\ sched[t].pc = "cancelled"
                                 /\ sched[t].check = c

\* C16: start_monitoring_service called while the engine is active is a
\* no-op, at startup and in every create_monitor request: the step
\* creates no task and leaves monitoring_active and monitoring_task as
\* they were. No other step creates a task either.
C16_StartWhileActiveIsNoOp ==
  [][ monitoring_active =>
        /\ \A t \in TaskIds : sched[t].pc = "none" => sched'[t].pc = "none"
        /\ (nextId' # nextId \/ (app.pc = "startup" /\ app'.pc # "startup"))
              => /\ monitoring_active'
                 /\ monitoring_task' = monitoring_task
    ]_vars

\* startup has created the one task and every monitor has been created
\* while the engine was active: still one task, the one of startup
C16_Witness ==
  /\ nextId = MaxMonitors + 1
  /\ monitoring_active
  /\ monitoring_task = 1
  /\ sched[1].pc \notin {"none", "created"}
  /\ \A t \in TaskIds \ {1} : sched[t].pc = "none"

\* the awaits of monitor_check_cycle and update_uptime_percentage that
\* are store calls
StoreAwaits == {"find", "update", "insert", "uptime", "uptime_update",
                "alert"}

\* C17: the store client is closed only after the scheduler has exited,
\* and no scheduler loop has a store read or write under way once the
\* client is closed, also when create_monitor calls start while stop
\* awaits the cancelled task.
C17_NoStoreCallAfterClose ==
  client = "closed" => \A t \in TaskIds : sched[t].pc \notin StoreAwaits

\* the pcs of a task inside a scan, after its find
ScanPcs == {"next", "probe", "update", "insert", "uptime", "uptime_update",
            "alert"}

\* the position in the snapshot at which the scan of task t stands
Stopped(t) ==
  IF sched[t].pc = "next"
  THEN next_due(sched[t].snapshot, sched[t].idx, now)
  ELSE sched[t].idx

\* C18: a failure while one monitor is checked (probe exception, failing
\* store write, unparsable document) does not keep the other due monitors
\* of the scan from being checked: when a scan ends and the task goes to
\* sleep, no document of the snapshot behind the position reached is one
\* the scan would have checked (it parses and is due).
C18_ScanChecksEveryDue ==
  [][ \A t \in TaskIds :
        (sched[t].pc \in ScanPcs /\ sched'[t].pc = "sleep")
           => \A j \in (Stopped(t) + 1)..Len(sched[t].snapshot) :
                 ~(/\ sched[t].snapshot[j].parsable
                   /\ is_due(sched[t].snapshot[j], now))
    ]_vars

\* the step in which a send of the alert block of task t fails
SendFails(t) ==
  /\ sched[t].pc = "alert"
  /\ ~probes[sched[t].check].send_failed
  /\ probes'[sched[t].check].send_failed

\* C19: a failing alert email does not fail the pipeline: in the step
\* where a send fails the monitor update and the log of that check are
\* in the store, with the uptime_percentage update_uptime_percentage
\* wrote if it wrote one; the step changes neither, and the task goes on
\* with the next document of the same scan instead of leaving the loop
\* or the scan.
C19_EmailFailureIsSwallowed ==
  [][ \A t \in TaskIds :
        SendFails(t) =>
          LET c == sched[t].check
              id == sched[t].snapshot[sched[t].idx].id
          IN /\ probes[c].updated
             /\ probes[c].logged = 1
             /\ \E k \in 1..Len(uptime_logs) :
                   /\ uptime_logs[k].id = c
                   /\ uptime_logs[k].monitor_id = id
                   /\ uptime_logs[k].status = sched[t].status
             /\ monitors[id].status = sched[t].status
             /\ monitors[id].last_checked = sched[t].last_checked
             /\ monitors' = monitors
             /\ uptime_logs' = uptime_logs
             /\ sched'[t].pc = "next"
             /\ sched'[t].snapshot = sched[t].snapshot
             /\ sched'[t].idx = sched[t].idx + 1
    ]_vars

\* a send has failed for the first monitor of a scan of two monitors and
\* the scan stands at the second one
C19_Witness ==
  \E t \in TaskIds :
     /\ sched[t].pc = "next"
     /\ Len(sched[t].snapshot) = 2
     /\ sched[t].idx = 2
     /\ \E c \in 1..Len(probes) :
           /\ probes[c].send_failed
           /\ probes[c].done
           /\ probes[c].monitor_id = sched[t].snapshot[1].id

\* the fields the specification requires for a kind of monitor
Required(monitor_type) ==
  CASE monitor_type \in {"http", "https"} -> {"url"}
    [] monitor_type = "ssl" -> {"ssl_domain"}
    [] monitor_type = "dns" -> {"dns_hostname"}
    [] monitor_type = "port" -> {"port_host", "port_number"}
    [] monitor_type = "ping" -> {"ping_host"}
    [] monitor_type = "keyword" -> {"keyword_url", "keyword_text"}
    [] monitor_type = "api" -> {"api_url"}

\* the step that handles the POST /api/monitors request
Handled == post.pc = "pending" /\ post'.pc = "done"

Rejected ==
  /\ post'.code = 400
  /\ monitors' = monitors
  /\ nextId' = nextId
  /\ UNCHANGED <<monitoring_active, monitoring_task, sched>>

Inserted ==
  /\ post'.code = 200
  /\ nextId \notin DOMAIN monitors
  /\ DOMAIN monitors' = DOMAIN monitors \cup {nextId}
  /\ monitors'[nextId].status = UNKNOWN

C21_DuplicateIs400UnknownIs404 ==
  [][ \A s \in AlertSlots :
        /\ ( /\ alertReq[s].pc = "find_existing"
             /\ alertReq'[s] # alertReq[s]
             /\ \E k \in 1..Len(alert_settings) :
                   alert_settings[k].monitor_id = alertReq[s].monitor_id )
              => /\ alertReq'[s].pc = "idle"
                 /\ alertReq'[s].code = 400
                 /\ alert_settings' = alert_settings
        /\ (alertReq[s].pc = "idle" /\ alertReq'[s] # alertReq[s])
              => /\ alert_settings' = alert_settings
                 /\ IF alertReq'[s].monitor_id \in DOMAIN monitors
                    THEN alertReq'[s].pc = "find_existing"
                    ELSE /\ alertReq'[s].pc = "idle"
                         /\ alertReq'[s].code = 404
    ]_vars

\* a second POST /api/alerts for a monitor was answered 400 and the
\* monitor still has the one record of the first
C21_Witness ==
  \E s \in AlertSlots :
     /\ alertReq[s].pc = "idle"
     /\ alertReq[s].code = 400
     /\ Len(SelectSeq(alert_settings,
                      LAMBDA a : a.monitor_id = alertReq[s].monitor_id)) = 1

\* the record of monitor id after the update_one of check c agrees with
\* the response the probe of c got
StoresResponse(c, id) ==
  LET r == probes[c].response
  IN r.kind = "response"
        => /\ id \in DOMAIN monitors'
           /\ monitors'[id].status = UP <=> r.code = 200
           /\ r.code # 200 => monitors'[id].status = DOWN

\* every log of a check that got a response: up exactly for 200,
\* otherwise down with the message "HTTP <code>"
LogsAgreeWithResponses ==
  \A k \in 1..Len(uptime_logs) :
     LET l == uptime_logs[k]
         r == probes[l.id].response
     IN r.kind = "response"
           => /\ l.status = UP <=> r.code = 200
              /\ r.code = 200 => l.error_message = NoError
              /\ r.code # 200
                    => /\ l.status = DOWN
                       /\ l.error_message = [text |-> "HTTP", code |-> r.code]

\* monitor m has had one check, by the scheduler, which got a 200 and
\* whose pipeline is over
OneCheck200(m) ==
  LET cs == ChecksOf(m)
  IN /\ Len(cs) = 1
     /\ cs[1].by = "scheduler"
     /\ cs[1].done
     /\ cs[1].response = [kind |-> "response", code |-> 200]

Due(doc, t) ==
  doc.last_checked = None \/ t - doc.last_checked >= doc.check_interval

\* C23: in a scan the scheduler checks a monitor exactly when, by the
\* document the scan read, last_checked is null or the current time
\* minus last_checked is at least check_interval: the document whose
\* probe starts is due, the documents the scan passes over on the way
\* and those left when it ends are not due, and a step of the scheduler
\* changes no monitor other than the one whose probe it started.
C23_CheckedIffDue ==
  [][ \A t \in TaskIds :
        /\ (sched[t].pc = "next" /\ sched'[t].pc = "probe")
              => /\ Due(sched[t].snapshot[sched'[t].idx], now)
                 /\ probes'[sched'[t].check].monitor_id
                       = sched[t].snapshot[sched'[t].idx].id
                 /\ \A j \in sched[t].idx..(sched'[t].idx - 1) :
                       ~Due(sched[t].snapshot[j], now)
                 /\ monitors' = monitors
        /\ (sched[t].pc = "next" /\ sched'[t].pc = "sleep")
              => /\ \A j \in sched[t].idx..Len(sched[t].snapshot) :
                       ~Due(sched[t].snapshot[j], now)
                 /\ monitors' = monitors
                 /\ probes' = probes
        /\ (sched'[t] # sched[t] /\ sched[t].pc \in ScanPcs)
              => \A m \in DOMAIN monitors :
                    (m \in DOMAIN monitors' /\ monitors'[m] # monitors[m])
                       => m = sched[t].snapshot[sched[t].idx].id
    ]_vars

\* a scan has passed over its first document, which was not due, and has
\* started the probe of the second
C23_Witness ==
  \E t \in TaskIds :
     /\ sched[t].pc = "probe"
     /\ sched[t].idx = 2
     /\ ~Due(sched[t].snapshot[1], sched[t].last_checked)

\* check c is between the start of its probe and the end of its store
\* steps (update_one, insert_one, update_uptime_percentage)
InStoreSteps(c) ==
  \/ \E t \in TaskIds :
        /\ sched[t].check = c
        /\ sched[t].pc \in {"probe", "update", "insert", "uptime",
                            "uptime_update"}
  \/ \E s \in ManualSlots : manual[s].check = c /\ manual[s].pc \in ProbeToInsert

\* C24: within a check the monitor update comes before the log insert,
\* the log insert before the uptime recomputation and that before the
\* alert evaluation; and when a probe of a monitor begins, the store
\* steps of every earlier check of that monitor are complete.
C24_StoreStepsBeforeNextProbe ==
  /\ \A c \in 1..Len(probes) :
        /\ probes[c].logged > 0 => probes[c].updated
        /\ probes[c].consulted => probes[c].logged > 0
        /\ \A t \in TaskIds :
              (sched[t].check = c
               /\ sched[t].pc \in {"uptime", "uptime_update", "alert"})
                 => probes[c].logged > 0 /\ ~probes[c].consulted
  /\ \A i, j \in 1..Len(probes) :
        (i < j /\ probes[i].monitor_id = probes[j].monitor_id)
           => ~InStoreSteps(i)

\* the task is held in asyncio.sleep(30): its sleep is not over
HeldInSleep(t) ==
  sched[t].pc = "sleep" /\ now < sched[t].sleep_from + SleepTicks

\* C25: a task that is held in its sleep has not reached the tick that
\* follows the start of its scan: after a scan longer than a tick the
\* next scan starts at once, after a shorter one the sleep ends with the
\* tick, so that scans start one tick apart whatever they last.
C25_SleepsOnlyUntilNextTick ==
  \A t \in TaskIds :
     HeldInSleep(t) => now < sched[t].scan_from + SleepTicks

\* the awaits of store calls that stand directly in the loop
LoopAwaits == {"find", "update", "insert", "alert"}

\* where the task stands when the store call it awaits at pc returns
Returned(pc) ==
  CASE pc = "find" -> "next"
    [] pc = "update" -> "insert"
    [] pc = "insert" -> "uptime"
    [] pc = "uptime" -> "uptime_update"
    [] pc = "uptime_update" -> "alert"
    [] pc = "alert" -> "next"

\* the step in which the store call task t awaits does not return
Raises(t) ==
  /\ sched[t].pc \in StoreAwaits
  /\ sched'[t] # sched[t]
  /\ sched'[t].pc # Returned(sched[t].pc)
  /\ ~(sched[t].pc \in {"uptime", "uptime_update"}
       /\ sched'[t].pc \in {"alert", "next"})

\* C26: a store call that raises during a scan does not end the
\* scheduler loop: raised by a call of the loop it sends the task into a
\* sleep of one tick that begins at that moment, raised inside
\* update_uptime_percentage it leaves the task in its scan; a task leaves
\* its sleep only when the tick is over and only into the find of a new
\* scan while monitoring_active is true, and no task has exited while
\* the flag is set.
C26_StoreFailureKeepsLoopAlive ==
  /\ [][ \A t \in TaskIds :
           /\ (sched[t].pc \in LoopAwaits /\ Raises(t))
                 => /\ sched'[t].pc = "sleep"
                    /\ sched'[t].sleep_from = now
           /\ (sched[t].pc \in StoreAwaits /\ sched'[t] # sched[t])
                 => sched'[t].pc \in {Returned(sched[t].pc), "sleep",
                                      "alert", "next"}
           /\ (sched[t].pc = "sleep" /\ sched'[t].pc # "sleep")
                 => /\ now >= sched[t].sleep_from + SleepTicks
                    /\ monitoring_active
                    /\ sched'[t].pc = "find"
                    /\ sched'[t].scan_from = now
     ]_vars
  /\ [](\A t \in TaskIds : sched[t].pc = "exited" => ~monitoring_active)

\* check c was abandoned between its update_one and its insert_one
AbandonedAtInsert(c) ==
  /\ probes[c].updated
  /\ probes[c].logged = 0
  /\ \A t \in TaskIds : sched[t].check # c
  /\ \A s \in ManualSlots : manual[s].check # c

\* insert_one of a check has raised, and the task has slept a tick and
\* has the documents of a new scan
C26_Witness ==
  \E c \in 1..Len(probes), t \in TaskIds :
     /\ AbandonedAtInsert(c)
     /\ monitoring_active
     /\ sched[t].pc = "next"
     /\ sched[t].scan_from >= probes[c].start + SleepTicks

\* check c is carried by a task or a request that awaits the store call pc
Awaits(c, pc) ==
  \/ \E t \in TaskIds : sched[t].check = c /\ sched[t].pc = pc
  \/ \E s \in ManualSlots : manual[s].check = c /\ manual[s].pc = pc

\* the log of check c is in the store, with status down and the text of
\* the exception
LoggedDown(c) ==
  \E k \in 1..Len(uptime_logs) :
     /\ uptime_logs[k].id = c
     /\ uptime_logs[k].monitor_id = probes[c].monitor_id
     /\ uptime_logs[k].status = DOWN
     /\ uptime_logs[k].error_message = ExceptionResult.error_message

\* C27: an exception of a probe primitive does not leave the check: the
\* check has status down and the text of the exception as its message,
\* it goes on to update_one and to insert_one, and when it has left these
\* the monitor was updated and exactly one log of the check, down with
\* that message, is in the store; in the scheduler's and in the manual
\* pipeline alike.
C27_ProbeExceptionStaysInCheck ==
  \A c \in 1..Len(probes) :
     probes[c].response = Raised
        => /\ probes[c].status = DOWN
           /\ probes[c].error_message = ExceptionResult.error_message
           /\ \/ Awaits(c, "update") /\ ~probes[c].updated
                                     /\ probes[c].logged = 0
              \/ Awaits(c, "insert") /\ probes[c].updated
                                     /\ probes[c].logged = 0
              \/ /\ probes[c].updated
                 /\ probes[c].logged = 1
                 /\ LoggedDown(c)

\* a scheduler check and a manual check whose primitives raised have
\* both updated the monitor and inserted their log
C27_Witness ==
  \E c, d \in 1..Len(probes) :
     /\ probes[c].by = "scheduler"
     /\ probes[d].by = "manual"
     /\ \A e \in {c, d} : /\ probes[e].response = Raised
                          /\ probes[e].updated
                          /\ probes[e].logged = 1
                          /\ LoggedDown(e)

\* a step of the manual check in slot s
ManualStep(s) == manual'[s] # manual[s]

\* monitors' differs from monitors at most in status and last_checked
\* of monitor id
WritesOnlyCheckFields(id) ==
  /\ DOMAIN monitors' = DOMAIN monitors
  /\ \A m \in DOMAIN monitors :
        /\ m # id => monitors'[m] = monitors[m]
        /\ monitors'[m].uptime_percentage = monitors[m].uptime_percentage
        /\ monitors'[m].check_interval = monitors[m].check_interval

\* C28: no step of a manual check sends an alert email or changes an
\* AlertSettings document or the uptime_percentage of a monitor; its
\* update_one writes status and last_checked of the requested monitor
\* and nothing else, and the request inserts exactly one log, in its
\* last step, whatever change of status it records.
C28_ManualCheckNoAlertNoUptime ==
  [][ \A s \in ManualSlots :
        ManualStep(s) =>
          /\ emails' = emails
          /\ alert_settings' = alert_settings
          /\ WritesOnlyCheckFields(IF manual[s].pc = "idle"
                                   THEN manual'[s].monitor_id
                                   ELSE manual[s].monitor_id)
          /\ manual[s].pc # "update" => monitors' = monitors
          /\ IF manual[s].pc = "insert"
             THEN /\ Len(uptime_logs') = Len(uptime_logs) + 1
                  /\ SubSeq(uptime_logs', 1, Len(uptime_logs)) = uptime_logs
                  /\ uptime_logs'[Len(uptime_logs')].monitor_id =
                        manual[s].monitor_id
                  /\ uptime_logs'[Len(uptime_logs')].status = manual[s].status
                  /\ probes'[manual[s].check].logged = 1
                  /\ manual'[s].pc = "idle"
             ELSE /\ uptime_logs' = uptime_logs
                  /\ manual'[s].pc # "idle"
    ]_vars

\* a manual check of a monitor that has AlertSettings has recorded the
\* change from up to down and is over, and no email was ever sent
C28_Witness ==
  \E c \in 1..Len(probes) :
     /\ probes[c].by = "manual"
     /\ probes[c].done
     /\ probes[c].previous_status = UP
     /\ probes[c].status = DOWN
     /\ probes[c].monitor_id \in DOMAIN monitors
     /\ monitors[probes[c].monitor_id].status = DOWN
     /\ has_alert(alert_settings, probes[c].monitor_id)
     /\ emails = <<>>

\* C29: after a handshake that leaves d whole days until notAfter, the
\* check of an ssl monitor with a configured threshold t >= 0, t = 0
\* included, yields down if d < 0, warning if 0 <= d <= t and up if
\* d > t.
C29_SslStatusByThreshold ==
  (call.pc = "done" /\ call.ssl_expiry_threshold >= 0)
     => LET d == call.days_until_expiry
            t == call.ssl_expiry_threshold
        IN call.result.status = IF d < 0 THEN DOWN
                                ELSE IF d <= t THEN WARNING
                                ELSE UP

\* json_path and expected_json_value given, the validation of call c
\* fails: the body is not JSON, a key of the path is not found, or the
\* str() of the value found is not the expected text
JsonFails(c) ==
  \/ c.response_text.type = "invalid"
  \/ lookup(c.response_text, split(c.json_path.text)).type = "error"
  \/ lookup(c.response_text, split(c.json_path.text)).text
        # c.expected_json_value.text

\* the status the ordered decision gives, for a time limit and a
\* validation that are in force or not
Decision(c, limited, validated) ==
  IF c.status # c.expected_status_code THEN DOWN
  ELSE IF limited /\ c.response_time > c.expected_response_time THEN WARNING
  ELSE IF validated /\ JsonFails(c) THEN DOWN
  ELSE UP

\* C30: check_api_endpoint decides in this order and stops at the first
\* failure: down if the status code is not the expected one; else
\* warning if expected_response_time is set and the response time
\* exceeds it; else down if json_path and expected_json_value are set and
\* the validation fails; otherwise up with the validation result true.
\* An argument is set when it is not None.
C30_OrderedDecisionWhenSet ==
  call.pc = "done"
     => /\ call.result.status =
              Decision(call, call.expected_response_time # None,
                       ~call.json_path.none
                          /\ ~call.expected_json_value.none)
        /\ call.result.status = UP => call.result.json_validation_passed

\* the logs of the requested window of call c that fall into the hour key
InHour(c, key) ==
  SelectSeq(c.logs, LAMBDA l :
     /\ l.timestamp >= c.now - c.hours * TicksPerHour
     /\ hour_key(l.timestamp) = key)

\* C31: the history has one entry for every clock hour in which the
\* requested window holds a log, in ascending order of the hour, with
\* total_checks the number of the window's logs in that hour,
\* uptime_percentage 100 x (up logs) / total_checks and
\* avg_response_time the mean response_time of the hour's up logs in
\* milliseconds.
C31_HistoryBucketsByHour ==
  call.pc = "done"
     => LET h == call.result
            keys == {hour_key(t) : t \in 0..MaxStamp}
        IN /\ \A i, j \in 1..Len(h) :
                 i < j => h[i].timestamp < h[j].timestamp
           /\ \A key \in keys :
                 LET hour == InHour(call, key)
                     up == SelectSeq(hour, LAMBDA l : l.status = UP)
                 IN IF hour = << >>
                    THEN \A i \in 1..Len(h) : h[i].timestamp # key
                    ELSE \E i \in 1..Len(h) :
                       /\ h[i].timestamp = key
                       /\ h[i].total_checks = count_logs(hour)
                       /\ h[i].uptime_percentage =
                             Fraction(count_logs(up) * 100, count_logs(hour))
                       /\ up # << >> =>
                             h[i].avg_response_time =
                                Fraction(total_response_time(up) * 1000,
                                         count_logs(up))

\* C32: once stop_monitoring_service has cancelled the task and awaits
\* it, the task terminates and the call returns, at whichever await the
\* task was suspended.
C32_StopReturnsTaskEnds ==
  /\ \A t \in TaskIds :
        (app.pc = "await" /\ app.task = t) ~> (sched[t].pc = "exited")
  /\ (app.pc = "await") ~> (app.pc = "shutdown")

\* the call has returned after cancelling a task that was suspended in a
\* probe: the check of that probe was never written
C32_Witness ==
  /\ app.pc = "shutdown"
  /\ monitoring_task = None
  /\ sched[1].pc = "exited"
  /\ \E c \in 1..Len(probes) :
        /\ probes[c].by = "scheduler"
        /\ probes[c].status = UNKNOWN
        /\ ~probes[c].updated

\* a task whose loop can still run: it was created and has neither
\* returned nor been cancelled
Alive(t) == sched[t].pc \notin {"none", "cancelled", "exited"}

\* C33: at most one scheduler loop is alive, and the loop that is alive
\* is the task monitoring_task refers to, also when a start runs while
\* stop awaits the cancelled task.
C33_OneLoopReferenced ==
  /\ Cardinality({t \in TaskIds : Alive(t)}) <= 1
  /\ \A t \in TaskIds : Alive(t) => monitoring_task = t

\* the last write of the status of m is that of check c, it wrote down
\* or warning, and the write before it had written up
ChangedToDown(m, c) ==
  /\ c \in 1..Len(probes)
  /\ probes[c].monitor_id = m /\ probes[c].updated
  /\ probes[c].status \in {DOWN, WARNING}
  /\ m \in DOMAIN monitors /\ monitors[m].status = probes[c].status
  /\ \E d \in 1..Len(probes) :
        /\ d # c /\ probes[d].monitor_id = m /\ probes[d].updated
        /\ probes[d].status = UP
        /\ \A e \in 1..Len(probes) :
              (e \notin {c, d} /\ probes[e].monitor_id = m)
              => ~probes[e].updated

AlertOnDown(m) ==
  \E k \in 1..Len(alert_settings) :
     /\ alert_settings[k].monitor_id = m
     /\ alert_settings[k].email_enabled
     /\ alert_settings[k].alert_on_down

\* a DOWN message for m sent by check c or a later one
DownAlertSince(m, c) ==
  \E k \in 1..Len(emails) :
     /\ emails[k].monitor_id = m
     /\ emails[k].kind = "DOWN"
     /\ emails[k].check >= c

InProgress(m) ==
  \/ \E t \in TaskIds :
        /\ sched[t].pc \in ScanPcs \ {"next"}
        /\ sched[t].snapshot[sched[t].idx].id = m
  \/ \E s \in ManualSlots : manual[s].pc # "idle" /\ manual[s].monitor_id = m

LogsOf(m) == SelectSeq(uptime_logs, LAMBDA l : l.monitor_id = m)

\* C35: while no check of a monitor is in progress, its stored status is
\* the status of the UptimeLog of that monitor that was inserted last.
C35_StatusIsLastLog ==
  \A m \in DOMAIN monitors :
     (~InProgress(m) /\ LogsOf(m) # << >>)
     => monitors[m].status = LogsOf(m)[Len(LogsOf(m))].status

\* DELETE /api/monitors/{m} has returned 200: the id was given out, its
\* document is gone and no delete of it still awaits its delete_many
DeleteReturned(m) ==
  /\ m < nextId
  /\ m \notin DOMAIN monitors
  /\ ~(delReq.pc = "delete_many" /\ delReq.monitor_id = m)

\* C36: from the return of DELETE /api/monitors/{id} on, the store holds
\* no UptimeLog of that monitor, whatever check of it was in progress
\* when the delete ran.
C36_NoLogAfterDelete ==
  \A m \in MonitorIds : DeleteReturned(m) => LogsOf(m) = << >>

\* a check of m has run its update_one
Written(m) ==
  \E c \in 1..Len(probes) : probes[c].monitor_id = m /\ probes[c].updated

\* C37: a monitor that a check has written has a stored status in
\* {up, down, warning}, and no step of any operation takes a stored
\* status from one of these back to unknown.
C37_NeverUnknownAgain ==
  /\ [](\A m \in DOMAIN monitors :
          Written(m) => monitors[m].status \in {UP, DOWN, WARNING})
  /\ [][\A m \in DOMAIN monitors \cap DOMAIN monitors' :
          monitors[m].status # UNKNOWN => monitors'[m].status # UNKNOWN]_vars

\* a monitor that the scheduler and a manual check have both written and
\* logged, in a later scan of the scheduler
C37_Witness ==
  \E m \in DOMAIN monitors :
     /\ \E c, d \in 1..Len(probes) :
           /\ probes[c].monitor_id = m /\ probes[d].monitor_id = m
           /\ probes[c].by = "scheduler" /\ probes[c].done
           /\ probes[d].by = "manual" /\ probes[d].logged > 0
     /\ monitors[m].status = WARNING
     /\ now > 0
     /\ sched[1].pc = "next"

\* check c runs its update_one in this step
Updates(c) == ~probes[c].updated /\ probes'[c].updated

\* task t passes the due test for a document and starts its probe
StartsProbe(t) == sched[t].pc = "next" /\ sched'[t].pc = "probe"

\* C38: the last_checked a check writes is the time at which its probe
\* was started, the UptimeLog of the same check has a timestamp that is
\* not earlier, and the due test of the scan measures check_interval
\* from the start of the probe whose last_checked it read.
C38_LastCheckedIsProbeStart ==
  /\ [][\A c \in 1..Len(probes) :
          (Updates(c) /\ probes[c].monitor_id \in DOMAIN monitors')
          => monitors'[probes[c].monitor_id].last_checked = probes[c].start
       ]_vars
  /\ [](\A k \in 1..Len(uptime_logs) :
          probes[uptime_logs[k].id].start <= uptime_logs[k].timestamp)
  /\ [][\A t \in TaskIds :
          StartsProbe(t)
          => LET doc == sched'[t].snapshot[sched'[t].idx]
             IN doc.last_checked # None
                => /\ now - doc.last_checked >= doc.check_interval
                   /\ \E c \in 1..Len(probes) :
                         /\ probes[c].monitor_id = doc.id
                         /\ probes[c].updated
                         /\ probes[c].start = doc.last_checked
       ]_vars

\* the scheduler has started a second probe of a monitor a full interval
\* after the start of the first and less than an interval after the
\* first was logged
C38_Witness ==
  \E c, d \in 1..Len(probes), k \in 1..Len(uptime_logs) :
     /\ c < d
     /\ probes[c].monitor_id = probes[d].monitor_id
     /\ probes[c].by = "scheduler" /\ probes[d].by = "scheduler"
     /\ uptime_logs[k].id = c
     /\ uptime_logs[k].timestamp > probes[c].start
     /\ probes[d].start - probes[c].start >= probes[d].interval
     /\ probes[d].start - uptime_logs[k].timestamp < probes[d].interval
====
